---------------------------- MODULE Spec2Model ----------------------------
(***************************************************************************)
(* Model of the search core of chatbot-assistant: the Path Guard           *)
(* (src/security/pathSecurity.js), the two file walkers and search         *)
(* engines (SmartSearchEngine in src/index.js, RobustSearchEngine in       *)
(* src/search/searchEngine.js) and the log tracer                          *)
(* (SmartSearchEngine.traceErrorLogToSource).                              *)
(*                                                                         *)
(* Paths are sequences of segment names; the absolute path "/srv/proj" is  *)
(* <<"srv", "proj">>.  String tests of the code (regular expressions,      *)
(* startsWith, toLowerCase, extname) are tables over the finite set of     *)
(* names that occur in the modelled file tree.                             *)
(***************************************************************************)
EXTENDS Integers, Sequences, FiniteSets, TLC

VARIABLES
    unreadable,     \* paths whose readdir / stat / readFile fails (the environment)
    securityLog,    \* PathSecurityValidator.securityLog
    guardCall,      \* the last validatePath call: its argument and its result
    walkCall,       \* the last walk: engine, root, options, returned files
    search,         \* the smartSearch / searchInFiles call in progress
    trace,          \* the traceErrorLogToSource call in progress
    call            \* a call of one of the pure functions: its arguments and results

vars == <<unreadable, securityLog, guardCall, walkCall, search, trace, call>>

---------------------------------------------------------------------------
(* Generic sequence helpers                                                *)

RECURSIVE SeqSum(_)
SeqSum(s) == IF s = << >> THEN 0 ELSE Head(s) + SeqSum(Tail(s))

RECURSIVE Flatten(_)
Flatten(ss) == IF ss = << >> THEN << >> ELSE Head(ss) \o Flatten(Tail(ss))

Take(s, n) == SubSeq(s, 1, IF n < Len(s) THEN n ELSE Len(s))

Range(s) == {s[i] : i \in 1..Len(s)}

IsPrefix(a, b) == Len(a) <= Len(b) /\ SubSeq(b, 1, Len(a)) = a

---------------------------------------------------------------------------
(* The file tree the program runs on                                       *)

Cwd == <<"srv", "proj">>

\* readdir(p): the entries of directory p, in the order the OS lists them
DirList(p) ==
    CASE p = << >>                              -> <<"etc", "home", "srv">>
      [] p = <<"etc">>                          -> <<"passwd">>
      [] p = <<"home">>                         -> <<"other">>
      [] p = <<"home", "other">>                -> <<"x.txt">>
      [] p = <<"srv">>                          -> <<"cfg", "db", "other", "proj", "projX", "scn">>
      [] p = <<"srv", "cfg">>                   -> <<"Loader.java">>
      [] p = <<"srv", "db">>                    ->
            <<"Store.java", "app.yml", "build.gradle", "plan.sql", "run.sh">>
      [] p = <<"srv", "other">>                 -> <<"a.java", "t.js">>
      [] p = <<"srv", "proj">>                  ->
            <<".hidden", "Gen", "a.java", "build", "link", "outlink", "pwlink", "src">>
      [] p = <<"srv", "proj", ".hidden">>       -> <<"h.js">>
      [] p = <<"srv", "proj", "Gen">>           -> <<"g.java">>
      [] p = <<"srv", "proj", "build">>         -> <<"out.js">>
      [] p = <<"srv", "proj", "src">>           -> <<"b.js", "deep", "p.png", "shadow.js">>
      [] p = <<"srv", "proj", "src", "deep">>   -> <<"c.md", "deeper">>
      [] p = <<"srv", "proj", "src", "deep", "deeper">> -> <<"d.py">>
      [] p = <<"srv", "projX">>                 -> <<"s.java">>
      [] p = <<"srv", "scn">>                   -> <<".git", "node_modules", "real.js">>
      [] p = <<"srv", "scn", ".git">>           -> <<"config">>
      [] p = <<"srv", "scn", "node_modules">>   -> <<"m.js">>
      [] OTHER                                  -> << >>

DirPaths ==
    { << >>, <<"etc">>, <<"home">>, <<"home", "other">>, <<"srv">>,
      <<"srv", "cfg">>, <<"srv", "db">>, <<"srv", "other">>, <<"srv", "proj">>, <<"srv", "proj", ".hidden">>,
      <<"srv", "proj", "Gen">>, <<"srv", "proj", "build">>,
      <<"srv", "proj", "src">>, <<"srv", "proj", "src", "deep">>,
      <<"srv", "proj", "src", "deep", "deeper">>, <<"srv", "projX">>,
      <<"srv", "scn">>, <<"srv", "scn", ".git">>,
      <<"srv", "scn", "node_modules">> }

\* symbolic links and the real path each resolves to
LinkTarget(p) ==
    CASE p = <<"srv", "proj", "link">>    -> <<"etc">>
      [] p = <<"srv", "proj", "outlink">> -> <<"home", "other", "x.txt">>
      [] p = <<"srv", "proj", "pwlink">>  -> <<"etc", "passwd">>
      [] OTHER                            -> << >>

LinkPaths ==
    { <<"srv", "proj", "link">>, <<"srv", "proj", "outlink">>,
      <<"srv", "proj", "pwlink">> }

Exists(p) ==
    \/ p \in DirPaths
    \/ /\ Len(p) > 0
       /\ SubSeq(p, 1, Len(p) - 1) \in DirPaths
       /\ p[Len(p)] \in Range(DirList(SubSeq(p, 1, Len(p) - 1)))

\* lstat(p): "dir", "link", "file" or "none"
Kind(p) ==
    IF ~Exists(p) THEN "none"
    ELSE IF p \in LinkPaths THEN "link"
    ELSE IF p \in DirPaths THEN "dir"
    ELSE "file"

---------------------------------------------------------------------------
(* String tables over the names of the tree                                *)

\* String.prototype.toLowerCase
ToLowerCase(n) ==
    CASE n = "Gen"   -> "gen"
      [] n = "projX" -> "projx"
      [] OTHER       -> n

\* name.startsWith('.')
StartsWithDot(n) == n \in {".git", ".hidden", ".", ".."}

\* s.includes('..')
IncludesDotDot(n) == n \in {"..", "a..b"}

\* the number of characters of a name
NameLen(n) == IF n = "long4097" THEN 4097 ELSE Len(n)

\* a.startsWith(b) for two names
NameStartsWith(a, b) == a = b \/ (a = "projX" /\ b = "proj") \/ b = ""

---------------------------------------------------------------------------
(* Path Guard: PathSecurityValidator (src/security/pathSecurity.js)        *)

\* A path argument: the string "/a/b" is [abs |-> TRUE, segs |-> <<"a", "b">>],
\* "a/b" is [abs |-> FALSE, segs |-> <<"a", "b">>], "" has no segments.
AbsPath(segs) == [abs |-> TRUE, segs |-> segs]
RelPath(segs) == [abs |-> FALSE, segs |-> segs]
EmptyString == RelPath(<< >>)

\* filePath.length
PathLen(p) ==
    SeqSum([i \in 1..Len(p.segs) |-> NameLen(p.segs[i])])
        + (IF p.abs THEN Len(p.segs)
           ELSE IF Len(p.segs) > 0 THEN Len(p.segs) - 1 ELSE 0)

\* path.normalize on the segments: "." is dropped, ".." removes the segment
\* before it (and is kept at the front of a relative path)
RECURSIVE NormalizeSegs(_, _, _)
NormalizeSegs(done, rest, abs) ==
    IF rest = << >> THEN done
    ELSE LET h == Head(rest) IN
         IF h = "." THEN NormalizeSegs(done, Tail(rest), abs)
         ELSE IF h = ".." THEN
             IF Len(done) > 0 /\ done[Len(done)] # ".."
             THEN NormalizeSegs(SubSeq(done, 1, Len(done) - 1), Tail(rest), abs)
             ELSE IF abs THEN NormalizeSegs(done, Tail(rest), abs)
             ELSE NormalizeSegs(Append(done, h), Tail(rest), abs)
         ELSE NormalizeSegs(Append(done, h), Tail(rest), abs)

Normalize(p) == [abs |-> p.abs, segs |-> NormalizeSegs(<< >>, p.segs, p.abs)]

\* path.resolve: the absolute path, as segments below "/"
Resolve(p) ==
    IF p.abs THEN NormalizeSegs(<< >>, p.segs, TRUE)
    ELSE NormalizeSegs(<< >>, Cwd \o p.segs, TRUE)

\* s.includes('..') on a path string
PathIncludesDotDot(p) == \E i \in 1..Len(p.segs) : IncludesDotDot(p.segs[i])

MaxPathLength == 4096

SecurityLogCap == 1000

\* blockedPatterns.linux, each /^\/name\//i: the directory itself, without
\* anything below it, does not match
LinuxBlocked(a) ==
    \/ /\ Len(a) >= 2
       /\ ToLowerCase(a[1]) \in
            {"etc", "root", "boot", "sys", "proc", "dev", "lib", "lib64",
             "sbin", "bin", "tmp", "lost+found"}
    \/ /\ Len(a) >= 3
       /\ <<ToLowerCase(a[1]), ToLowerCase(a[2])>> \in
            { <<"var", "log">>, <<"usr", "bin">>, <<"usr", "sbin">>,
              <<"var", "spool">>, <<"var", "cache">>, <<"var", "run">> }

\* blockedPatterns.universal
UniversalBlocked(a) ==
    \/ \E i \in 1..(Len(a) - 1) : ToLowerCase(a[i]) \in {".ssh", ".gnupg"}
    \/ \E i \in 1..Len(a) :
            ToLowerCase(a[i]) \in
                {"id_rsa", "id_ed25519", "shadow", "shadow.js", "sudoers"}
    \/ /\ Len(a) >= 1
       /\ ToLowerCase(a[Len(a)]) \in {"server.key", "cert.pem", "passwd"}

\* getPatternsByPlatform on a linux host: universal, then linux
BlockedPath(a) == UniversalBlocked(a) \/ LinuxBlocked(a)

\* path.substring(0, 100)
Truncate100(p) == IF PathLen(p) <= 100 THEN p ELSE AbsPath(<<"truncated">>)

Violation(type, p) == [type |-> type, path |-> Truncate100(p)]

\* a log that only grows
LogUnbounded(log, v) == Append(log, v)

\* logSecurityViolation: push, then keep only the last SecurityLogCap
LogSecurityViolation(log, v) ==
    LET pushed == Append(log, v) IN
    IF Len(pushed) > SecurityLogCap
    THEN SubSeq(pushed, Len(pushed) - SecurityLogCap + 1, Len(pushed))
    ELSE pushed

RECURSIVE LogAll(_, _)
LogAll(log, vs) ==
    IF vs = << >> THEN log ELSE LogAll(LogSecurityViolation(log, Head(vs)), Tail(vs))

Rejected(code, viols) == [valid |-> FALSE, code |-> code, viols |-> viols]

Accepted(viols) == [valid |-> TRUE, code |-> "OK", viols |-> viols]

\* Step 6 of validatePath once the link's real path has been validated: a
\* rejected real path rejects the link and logs SYMLINK_TO_BLOCKED
SymlinkResult(real, absolutePath) ==
    IF ~real.valid
    THEN Rejected(real.code,
                  Append(real.viols, Violation("SYMLINK_TO_BLOCKED", AbsPath(absolutePath))))
    ELSE Accepted(real.viols)

\* validatePath: the result, and the violations it logs, in order
RECURSIVE ValidatePath(_)
RECURSIVE ValidateAbsolute(_)
ValidatePath(p) ==
    IF p.segs = << >> /\ ~p.abs THEN Rejected("INVALID_INPUT", << >>)
    ELSE IF PathLen(p) > MaxPathLength THEN Rejected("PATH_TOO_LONG", << >>)
    ELSE IF PathIncludesDotDot(Normalize(p)) \/ PathIncludesDotDot(p)
        THEN Rejected("TRAVERSAL_DETECTED", <<Violation("TRAVERSAL_ATTEMPT", p)>>)
    ELSE ValidateAbsolute(Resolve(p))

\* Steps 5 and 6 of validatePath, on the resolved absolute path
ValidateAbsolute(absolutePath) ==
    IF BlockedPath(absolutePath)
    THEN Rejected("BLOCKED_PATH", <<Violation("BLOCKED_PATH", AbsPath(absolutePath))>>)
    ELSE IF Kind(absolutePath) = "link"
    THEN SymlinkResult(ValidatePath(AbsPath(LinkTarget(absolutePath))), absolutePath)
    ELSE Accepted(<< >>)

---------------------------------------------------------------------------
(* File type taxonomy: SmartSearchEngine.getFileType (src/index.js)        *)

\* path.extname(name).toLowerCase()
ExtName(n) ==
    CASE n \in {"a.java", "g.java", "s.java", "Loader.java", "Store.java"}          -> ".java"
      [] n \in {"b.js", "h.js", "m.js", "out.js", "real.js", "shadow.js", "t.js"} -> ".js"
      [] n = "c.md"                                                    -> ".md"
      [] n = "d.py"                                                    -> ".py"
      [] n = "x.txt"                                                   -> ".txt"
      [] n = "p.png"                                                   -> ".png"
      [] n = "app.yml"                                                 -> ".yml"
      [] n = "build.gradle"                                            -> ".gradle"
      [] n = "plan.sql"                                                -> ".sql"
      [] n = "run.sh"                                                  -> ".sh"
      [] OTHER                                                         -> ""

\* getFileType: no name of the tree contains readme, changelog, license,
\* todo or notes, so the type is the extension's
GetFileType(n) ==
    CASE ExtName(n) = ".java"          -> "java"
      [] ExtName(n) = ".js"            -> "javascript"
      [] ExtName(n) = ".py"            -> "python"
      [] ExtName(n) = ".yml"           -> "config"
      [] ExtName(n) = ".gradle"        -> "build"
      [] ExtName(n) = ".sql"           -> "sql"
      [] ExtName(n) = ".sh"            -> "shell"
      [] ExtName(n) \in {".md", ".txt"} -> "docs"
      [] OTHER                         -> "unknown"

---------------------------------------------------------------------------
(* File Walker: SmartSearchEngine.getAllFiles (src/index.js) and           *)
(* RobustSearchEngine.getAllFilesSync (src/search/searchEngine.js)         *)

\* defaultSkipDirs of getAllFiles
DefaultSkipDirs ==
    {"node_modules", ".git", ".svn", ".hg", "target", "build", "dist",
     "bin", "obj", ".vscode", ".idea", "__pycache__", ".gradle",
     "vendor", "coverage", ".nyc_output", "logs", ".next", "out",
     "tmp", "temp", ".cache", ".pytest_cache", ".mypy_cache"}

\* skipDirs of getAllFilesSync
RestSkipDirs ==
    DefaultSkipDirs \cup {"bower_components", "jspm_packages", ".meteor", ".sass-cache"}

\* fs.readdir(p) throws: p is no directory, or the environment fails the read
ReaddirFails(p, unread) == Kind(p) # "dir" \/ p \in unread

FileEntry(root, dir, n) ==
    [path         |-> Append(dir, n),
     name         |-> n,
     extension    |-> ExtName(n),
     relativePath |-> SubSeq(Append(dir, n), Len(root) + 1, Len(dir) + 1),
     fileType     |-> GetFileType(n)]

NoFiles == [files |-> << >>, errors |-> << >>]

\* the directory test of scanDirectory: entries it does not descend into
SkipsDirectory(n, skipDirsSet) ==
    \/ StartsWithDot(n) /\ n # "."
    \/ ToLowerCase(n) \in skipDirsSet

\* a depth test that lets one more level through
DepthExceeded(currentDepth, maxDepth) == currentDepth > maxDepth

\* the depth test of scanDirectory and of getAllFilesSync
DepthReached(currentDepth, maxDepth) == currentDepth >= maxDepth

MergeFiles(a, b) == [files |-> a.files \o b.files, errors |-> a.errors \o b.errors]

\* a catch that swallows the error without recording it
WalkErrorDropped(msg, path) == NoFiles

\* the catch around readdir: this.error(message) pushes on this.errors, and the
\* directory contributes no file
WalkError(msg, path) == [files |-> << >>, errors |-> <<[msg |-> msg, path |-> path]>>]

\* scanDirectory(currentPath, currentDepth) inside getAllFiles; w holds root,
\* maxDepth, skipDirsSet, extensions and the unreadable paths
RECURSIVE ScanDirectory(_, _, _)
RECURSIVE ScanEntries(_, _, _, _)
RECURSIVE ScanEntry(_, _, _, _)
ScanDirectory(w, currentPath, currentDepth) ==
    IF DepthReached(currentDepth, w.maxDepth) THEN NoFiles
    ELSE IF ReaddirFails(currentPath, w.unread)
        THEN WalkError("Cannot read directory", currentPath)
    ELSE ScanEntries(w, currentPath, currentDepth, DirList(currentPath))

ScanEntries(w, currentPath, currentDepth, entries) ==
    IF entries = << >> THEN NoFiles
    ELSE MergeFiles(ScanEntry(w, currentPath, currentDepth, Head(entries)),
                    ScanEntries(w, currentPath, currentDepth, Tail(entries)))

\* the body of the loop over the entries: descend, add the file, or ignore
ScanEntry(w, currentPath, currentDepth, n) ==
    IF Kind(Append(currentPath, n)) = "dir" THEN
        IF SkipsDirectory(n, w.skipDirsSet) THEN NoFiles
        ELSE ScanDirectory(w, Append(currentPath, n), currentDepth + 1)
    ELSE IF Kind(Append(currentPath, n)) = "file" THEN
        IF w.extensions = {} \/ ExtName(n) \in w.extensions
        THEN [files |-> <<FileEntry(w.root, currentPath, n)>>, errors |-> << >>]
        ELSE NoFiles
    ELSE NoFiles

WalkResult(threw, r, v) ==
    [threw |-> threw, files |-> r.files, errors |-> r.errors, viols |-> v.viols]

\* getAllFiles once the Path Guard has answered v for dirPath
GetAllFilesGuarded(v, root, maxDepth, skipDirs, extensions, unread) ==
    IF ~v.valid THEN WalkResult(TRUE, NoFiles, v)
    ELSE WalkResult(FALSE,
                    ScanDirectory([root |-> root, maxDepth |-> maxDepth,
                                   skipDirsSet |-> DefaultSkipDirs \cup Range(skipDirs),
                                   extensions |-> extensions, unread |-> unread],
                                  root, 0),
                    v)

\* getAllFiles(dirPath, {maxDepth, extensions, skipDirs}): throws when the Path
\* Guard rejects dirPath, else the files scanDirectory finds
GetAllFiles(dirPath, maxDepth, skipDirs, extensions, unread) ==
    GetAllFilesGuarded(ValidatePath(dirPath), Resolve(dirPath), maxDepth, skipDirs,
                       extensions, unread)

\* config.files.allowedPaths, resolved, for ALLOWED_PATHS=./,/srv/scn
AllowedPaths == {Cwd, <<"srv", "scn">>}

\* resolvedTarget.startsWith(resolvedAllowed), on the path strings
StringStartsWith(target, allowed) ==
    \/ allowed = << >>
    \/ /\ Len(allowed) <= Len(target)
       /\ SubSeq(target, 1, Len(allowed) - 1) = SubSeq(allowed, 1, Len(allowed) - 1)
       /\ NameStartsWith(target[Len(allowed)], allowed[Len(allowed)])

\* getAllFilesSync(dirPath, maxDepth, currentDepth)
RECURSIVE GetAllFilesSync(_, _, _, _)
RECURSIVE SyncEntries(_, _, _, _, _)
RECURSIVE SyncEntry(_, _, _, _, _)
GetAllFilesSync(dirPath, maxDepth, currentDepth, unread) ==
    IF ~(\E a \in AllowedPaths : StringStartsWith(dirPath, a))
        THEN WalkError("Directory not in allowed paths", dirPath)
    ELSE IF Kind(dirPath) = "none" THEN WalkError("Directory does not exist", dirPath)
    ELSE IF Kind(dirPath) # "dir" THEN WalkError("Path is not a directory", dirPath)
    ELSE IF DepthReached(currentDepth, maxDepth) THEN NoFiles
    ELSE IF ReaddirFails(dirPath, unread) THEN WalkError("Cannot read directory", dirPath)
    ELSE SyncEntries(dirPath, maxDepth, currentDepth, unread, DirList(dirPath))

SyncEntries(dirPath, maxDepth, currentDepth, unread, entries) ==
    IF entries = << >> THEN NoFiles
    ELSE MergeFiles(SyncEntry(dirPath, maxDepth, currentDepth, unread, Head(entries)),
                    SyncEntries(dirPath, maxDepth, currentDepth, unread, Tail(entries)))

SyncEntry(dirPath, maxDepth, currentDepth, unread, n) ==
    IF Kind(Append(dirPath, n)) = "dir" THEN
        IF SkipsDirectory(n, RestSkipDirs) THEN NoFiles
        ELSE GetAllFilesSync(Append(dirPath, n), maxDepth, currentDepth + 1, unread)
    ELSE IF Kind(Append(dirPath, n)) = "file"
        THEN [files |-> <<FileEntry(dirPath, dirPath, n)>>, errors |-> << >>]
    ELSE NoFiles

---------------------------------------------------------------------------
(* File contents and pattern matching                                      *)
(* SmartSearchEngine.createSmartPatterns / selectSearchPatterns /          *)
(* findMatches / deduplicateAndScore / smartSearchInFile (src/index.js)    *)

\* The lines that occur in the files of the tree
\*   "decl"  class Foo {          "Call"  new Foo(2)
\*   "call"  x = foo(1)           "fn"    function Foo() {
\*   "sub"   fooBar = 1           "two"   Foo and Foo
\*   "head"  # Foo guide          "item"  - foo item
\*   "none"  bar                  "tmpl"  // str - upload num failed
\*   "popdecl"   public void populateColPlanList() {
\*   "popquery"  ConfigStore.colPlanList =
\*                   jdbcTemplate.query("SELECT * FROM PLAN_TABLE", mapper);
\*   "close"     }
\*   "diag"      throw new FooError("disk num unreachable");
\*   "prop"      colPlanList.source: PLAN_TABLE
Content(p) ==
    CASE p = <<"srv", "proj", "a.java">>                 -> <<"decl", "none", "Call", "call">>
      [] p = <<"srv", "proj", "Gen", "g.java">>          -> <<"Call">>
      [] p = <<"srv", "proj", "src", "b.js">>            -> <<"fn", "sub", "two">>
      [] p = <<"srv", "proj", "src", "shadow.js">>       -> <<"fn">>
      [] p = <<"srv", "proj", "src", "deep", "c.md">>    -> <<"head", "item">>
      [] p = <<"srv", "proj", "src", "deep", "deeper", "d.py">> -> <<"call">>
      [] p = <<"srv", "other", "a.java">>                -> <<"decl", "sub">>
      [] p = <<"srv", "other", "t.js">>                  -> <<"tmpl", "tmpl", "tmpl">>
      [] p = <<"srv", "projX", "s.java">>                -> <<"decl">>
      [] p = <<"srv", "scn", "real.js">>                 -> <<"call", "none">>
      [] p = <<"srv", "cfg", "Loader.java">>             -> <<"popdecl", "popquery", "close">>
      [] p = <<"srv", "db", "Store.java">>               -> <<"none", "diag">>
      [] p = <<"srv", "db", "app.yml">>                  -> <<"prop">>
      [] OTHER                                           -> <<"none">>

\* stats.size, in bytes
FileSize(p) ==
    IF p = <<"srv", "proj", "src", "deep", "deeper", "d.py">> THEN 60000000 ELSE 100

MaxFileSize == 52428800

\* The queries of the model: an identifier, a text that occurs nowhere, and a
\* text that is no valid regular expression (new RegExp throws on it)
Queries == {"Foo", "zzz", "Foo("}

\* the texts searched that hold an opening parenthesis
ParenQueries == {"Foo(", "Foo( foo( a.java", "foo( foo( a.java"}

QueryIncludes(q, word) == q \in ParenQueries /\ word = "("

\* occurrences, on one line, of a text; a text that is not listed occurs on
\* no line of the tree
Occurs(text, line) ==
    CASE text = "Foo"  -> (CASE line \in {"decl", "Call", "fn", "head", "diag"} -> 1
                             [] line = "two" -> 2 [] OTHER -> 0)
      [] text = "foo"  -> (IF line \in {"call", "sub", "item"} THEN 1 ELSE 0)
      [] text = "Foo(" -> (IF line \in {"Call", "fn"} THEN 1 ELSE 0)
      [] text = "foo(" -> (IF line = "call" THEN 1 ELSE 0)
      [] text \in {"str - upload num failed", "upload num failed"}
                       -> (IF line = "tmpl" THEN 1 ELSE 0)
      [] text \in {"FooError", "disk num unreachable"}
                       -> (IF line = "diag" THEN 1 ELSE 0)
      [] text = "x\\s*=\\s*"            -> (IF line = "call" THEN 1 ELSE 0)
      [] text = "colPlanList"              -> (IF line \in {"popquery", "prop"} THEN 1 ELSE 0)
      [] text = "ColPlanList"              -> (IF line = "popdecl" THEN 1 ELSE 0)
      [] text = "populate.*ColPlanList"    -> (IF line = "popdecl" THEN 1 ELSE 0)
      [] text \in {"colPlanList\\s*=\\s*", "colPlanList\\s*=.*query",
                   "colPlanList\\s*=.*SELECT", "colPlanList.*=.*query",
                   "SELECT.*FROM\\s+PLAN_TABLE"}
                       -> (IF line = "popquery" THEN 1 ELSE 0)
      [] OTHER         -> 0

\* query.toLowerCase()
Lower(q) ==
    CASE q = "Foo"                                  -> "foo"
      [] q = "Foo("                                 -> "foo("
      [] q = "FooError"                             -> "fooerror"
      [] q = "Foo( foo( a.java"                     -> "foo( foo( a.java"
      [] q = "FooError: disk 12345 unreachable"     -> "fooerror: disk 12345 unreachable"
      [] q = "\"Foo\" - upload 12345 failed"        -> "\"foo\" - upload 12345 failed"
      [] q = "colPlanList"                          -> "colplanlist"
      [] q = "populate.*colPlanList"                -> "populate.*colplanlist"
      [] q = "colPlanList\\s*=\\s*"                -> "colplanlist\\s*=\\s*"
      [] q = "colPlanList\\s*=.*query"              -> "colplanlist\\s*=.*query"
      [] q = "colPlanList\\s*=.*SELECT"             -> "colplanlist\\s*=.*select"
      [] q = "colPlanList.*=.*query"                -> "colplanlist.*=.*query"
      [] q = "SELECT.*FROM\\s+PLAN_TABLE"           -> "select.*from\\s+plan_table"
      [] OTHER                                      -> q

\* the texts that differ from text in case only
CaseVariants(text) ==
    CASE text \in {"Foo", "foo"}   -> <<"Foo", "foo">>
      [] text \in {"Foo(", "foo("} -> <<"Foo(", "foo(">>
      [] text \in {"FooError", "fooerror"} -> <<"FooError">>
      [] text \in {"colPlanList", "colplanlist"} -> <<"colPlanList", "ColPlanList">>
      [] text \in {"populate.*colPlanList", "populate.*colplanlist"}
                                   -> <<"populate.*ColPlanList">>
      [] text = "colplanlist\\s*=\\s*"       -> <<"colPlanList\\s*=\\s*">>
      [] text = "colplanlist\\s*=.*query"     -> <<"colPlanList\\s*=.*query">>
      [] text = "colplanlist\\s*=.*select"    -> <<"colPlanList\\s*=.*SELECT">>
      [] text = "colplanlist.*=.*query"       -> <<"colPlanList.*=.*query">>
      [] text = "select.*from\\s+plan_table"  -> <<"SELECT.*FROM\\s+PLAN_TABLE">>
      [] OTHER                     -> <<text>>

\* occurrences of text under the flags 'g' (caseSensitive) or 'gi'
OccursFlag(text, line, caseSensitive) ==
    IF caseSensitive THEN Occurs(text, line)
    ELSE SeqSum([k \in 1..Len(CaseVariants(text)) |-> Occurs(CaseVariants(text)[k], line)])

WordFlag(text, line, caseSensitive) ==
    IF \/ line = "sub"
       \/ line = "popdecl" /\ text \in {"colPlanList", "colplanlist"}
       \/ line = "diag" /\ text \in {"Foo", "foo"}
    THEN 0
    ELSE OccursFlag(text, line, caseSensitive)

\* new RegExp(pattern) throws: every pattern built from a query with an
\* unbalanced parenthesis
RegexThrows(q) == q \in ParenQueries

\* the number of matches of one strategy's pattern on line number i of a file
\* (findMatches).  A pattern anchored with ^ and compiled without the m flag
\* matches at the start of the content only.  When the regular expression
\* throws, the pattern text is searched literally: only the strategies whose
\* pattern is the query itself can then occur in a file.
MatchCount(type, q, line, i, caseSensitive) ==
    IF RegexThrows(q) THEN
        CASE type \in {"exact", "javaMethod"} -> OccursFlag(q, line, caseSensitive)
          [] type = "caseInsensitive"         -> OccursFlag(Lower(q), line, caseSensitive)
          [] OTHER                            -> 0
    ELSE
        CASE type = "exact"           -> OccursFlag(q, line, caseSensitive)
          [] type = "caseInsensitive" -> OccursFlag(Lower(q), line, caseSensitive)
          [] type = "variable"        -> WordFlag(q, line, caseSensitive)
          [] type = "function"        ->
                IF line = "fn" THEN OccursFlag(q, line, caseSensitive) ELSE 0
          [] type = "heading"         ->
                IF i = 1 /\ line = "head" /\ OccursFlag(q, line, caseSensitive) > 0
                THEN 1 ELSE 0
          [] type = "listItem"        ->
                IF i = 1 /\ line = "item" /\ OccursFlag(q, line, caseSensitive) > 0
                THEN 1 ELSE 0
          [] OTHER                    -> 0

Pattern(type, weight) == [type |-> type, weight |-> weight]

\* Array.prototype.sort((a, b) => b.weight - a.weight): stable insertion
RECURSIVE InsertPattern(_, _)
InsertPattern(sorted, e) ==
    IF sorted = << >> THEN <<e>>
    ELSE IF e.weight - Head(sorted).weight <= 0
         THEN <<Head(sorted)>> \o InsertPattern(Tail(sorted), e)
         ELSE <<e>> \o sorted

\* the patterns in the order in which they were pushed
PatternsAsPushed(s) == s

RECURSIVE SortPatterns(_)
SortPatterns(s) ==
    IF s = << >> THEN << >>
    ELSE InsertPattern(SortPatterns(SubSeq(s, 1, Len(s) - 1)), s[Len(s)])

\* selectSearchPatterns(patterns, fileType, originalQuery).  No query of the
\* model includes 'class', 'import', 'package' or 'method', so javaClass,
\* javaImport and javaPackage are never selected.
SelectSearchPatterns(fileType, q) ==
    SortPatterns(
        (IF fileType = "java" /\ (QueryIncludes(q, "(") \/ QueryIncludes(q, "method"))
         THEN <<Pattern("javaMethod", 9)>> ELSE << >>)
     \o (IF fileType = "docs"
         THEN <<Pattern("heading", 8), Pattern("listItem", 7)>> ELSE << >>)
     \o (IF fileType \in {"javascript", "python", "cpp", "csharp"}
         THEN <<Pattern("function", 8)>> ELSE << >>)
     \o <<Pattern("variable", 6), Pattern("caseInsensitive", 5), Pattern("exact", 10)>>)

Match(line, type, weight) == [line |-> line, matchType |-> type, relevanceScore |-> weight]

\* findMatches(content, lines, patternInfo, caseSensitive, contextLines): one
\* result per match, in the order of the content
RECURSIVE Repeat(_, _)
Repeat(x, n) == IF n <= 0 THEN << >> ELSE <<x>> \o Repeat(x, n - 1)

FindMatches(lines, pat, q, caseSensitive) ==
    Flatten([i \in 1..Len(lines) |->
                Repeat(Match(i, pat.type, pat.weight),
                       MatchCount(pat.type, q, lines[i], i, caseSensitive))])

\* the strategy loop of smartSearchInFile: stop adding once maxMatches results
\* have accumulated
RECURSIVE AccumulateMatches(_, _, _, _, _, _)
AccumulateMatches(results, pats, lines, q, caseSensitive, maxMatches) ==
    IF pats = << >> \/ Len(results) >= maxMatches THEN results
    ELSE AccumulateMatches(results \o FindMatches(lines, Head(pats), q, caseSensitive),
                           Tail(pats), lines, q, caseSensitive, maxMatches)

\* the Map of deduplicateAndScore: one result per line, the first of the best
\* score, in the order in which the lines were first seen
RECURSIVE UniqueByLine(_, _)
UniqueByLine(kept, results) ==
    IF results = << >> THEN kept
    ELSE LET r == Head(results)
             at == {i \in 1..Len(kept) : kept[i].line = r.line}
         IN  IF at = {} THEN UniqueByLine(Append(kept, r), Tail(results))
             ELSE LET i == CHOOSE j \in at : TRUE IN
                  IF kept[i].relevanceScore < r.relevanceScore
                  THEN UniqueByLine([kept EXCEPT ![i] = r], Tail(results))
                  ELSE UniqueByLine(kept, Tail(results))

\* the comparator of deduplicateAndScore
CompareInFile(a, b) ==
    IF a.relevanceScore # b.relevanceScore
    THEN b.relevanceScore - a.relevanceScore
    ELSE a.line - b.line

RECURSIVE InsertInFile(_, _)
InsertInFile(sorted, e) ==
    IF sorted = << >> THEN <<e>>
    ELSE IF CompareInFile(Head(sorted), e) <= 0
         THEN <<Head(sorted)>> \o InsertInFile(Tail(sorted), e)
         ELSE <<e>> \o sorted

RECURSIVE SortInFile(_)
SortInFile(s) ==
    IF s = << >> THEN << >>
    ELSE InsertInFile(SortInFile(SubSeq(s, 1, Len(s) - 1)), s[Len(s)])

DeduplicateAndScore(results) == SortInFile(UniqueByLine(<< >>, results))

\* maxMatches: 3 in smartSearch's call of smartSearchInFile
MaxMatchesPerFile == 3

FileResult(matches, errors, processed, v) ==
    [matches |-> matches, errors |-> errors, processed |-> processed, viols |-> v.viols]

FileError(msg, path) == <<[msg |-> msg, path |-> path]>>

\* the strategies of smartSearchInFile on the content read: select, accumulate,
\* deduplicate, slice
MatchesInContent(filePath, q, caseSensitive, maxMatches) ==
    Take(DeduplicateAndScore(
            AccumulateMatches(<< >>,
                              SelectSearchPatterns(GetFileType(filePath[Len(filePath)]), q),
                              Content(filePath), q, caseSensitive, maxMatches)),
         maxMatches)

\* smartSearchInFile once the Path Guard has answered v for filePath
SearchGuardedFile(v, filePath, q, caseSensitive, maxMatches, unread) ==
    IF ~v.valid THEN FileResult(<< >>, FileError("Security", filePath), 0, v)
    ELSE IF Kind(filePath) = "none"
        THEN FileResult(<< >>, FileError("Error in smart search", filePath), 0, v)
    ELSE IF FileSize(filePath) > MaxFileSize THEN FileResult(<< >>, << >>, 0, v)
    ELSE IF filePath \in unread
        THEN FileResult(<< >>, FileError("Cannot read file", filePath), 0, v)
    ELSE FileResult(MatchesInContent(filePath, q, caseSensitive, maxMatches), << >>, 1, v)

\* smartSearchInFile(filePath, query, {caseSensitive, maxMatches}): the matches,
\* the error it records (if any), whether it counted the file as processed,
\* and the violations the Path Guard logged
SmartSearchInFile(filePath, q, caseSensitive, maxMatches, unread) ==
    SearchGuardedFile(ValidatePath(AbsPath(filePath)), filePath, q, caseSensitive,
                      maxMatches, unread)

---------------------------------------------------------------------------
(* smartSearch (src/index.js): gathering, batches, ranking                 *)

\* this.maxResults and this.batchSize: environment settings (MAX_SEARCH_RESULTS,
\* SEARCH_BATCH_SIZE, 500 by default), scaled to the size of the tree
EngineMaxResults == 4
BatchSize == 2

\* this.maxFilesToProcess and this.maxDepth
MaxFilesToProcess == 20000
EngineMaxDepth == 30

\* binaryExtensions of shouldProcessFile
BinaryExtensions ==
    {".exe", ".dll", ".so", ".dylib", ".bin", ".class", ".jar", ".war",
     ".zip", ".tar", ".gz", ".rar", ".7z", ".pdf", ".doc", ".docx",
     ".xls", ".xlsx", ".ppt", ".pptx", ".png", ".jpg", ".jpeg", ".gif",
     ".bmp", ".svg", ".ico", ".mp3", ".mp4", ".avi", ".mov", ".wmv"}

\* this.fileTypeMapping / typeMapping: the tags that have an entry
MappedTypes == {"java", "javascript", "python", "cpp", "web", "docs", "config", "code"}

FileTypeMapping(t) ==
    CASE t = "config" -> {"config", "build"}
      [] t = "code"   -> {"java", "javascript", "python", "cpp", "csharp", "web", "sql", "shell"}
      [] OTHER        -> {t}

\* shouldProcessFile(filePath, fileStats, {fileTypes}): "ok", "skipped" (counted
\* in skippedFiles) or "filtered"
ShouldProcessFile(file, fileTypes) ==
    IF FileSize(file.path) > MaxFileSize THEN "skipped"
    ELSE IF file.extension \in BinaryExtensions THEN "skipped"
    ELSE IF "all" \notin Range(fileTypes)
            /\ file.fileType \notin
                 UNION {FileTypeMapping(t) : t \in Range(fileTypes) \cap MappedTypes}
         THEN "filtered"
    ELSE "ok"

\* filterFilesByType(files, fileTypes)
FilterFilesByType(files, fileTypes) ==
    IF "all" \in Range(fileTypes) THEN files
    ELSE SelectSeq(files,
            LAMBDA f : f.fileType \in
                UNION {IF t \in MappedTypes THEN FileTypeMapping(t) ELSE {t}
                       : t \in Range(fileTypes)})

\* the loop body without its try/catch: the error of getAllFiles leaves
\* smartSearch
RootErrorUncaught(g, searchPath) ==
    [files |-> << >>, skipped |-> 0, viols |-> g.viols, errors |-> << >>, threw |-> TRUE]

\* the catch of the loop over the search paths: the error is recorded and the
\* loop goes on
RootErrorCaught(g, searchPath) ==
    [files |-> << >>, skipped |-> 0, viols |-> g.viols, threw |-> FALSE,
     errors |-> <<[msg |-> "Cannot access directory", path |-> searchPath.segs]>>]

\* the filter loop over the files of one search path
FilterGathered(g, searchPath, fileTypes) ==
    IF g.threw
    THEN RootErrorCaught(g, searchPath)
    ELSE [files   |-> SelectSeq(g.files, LAMBDA f : ShouldProcessFile(f, fileTypes) = "ok"),
          skipped |-> Len(SelectSeq(g.files,
                            LAMBDA f : ShouldProcessFile(f, fileTypes) = "skipped")),
          viols   |-> g.viols,
          errors  |-> g.errors,
          threw   |-> FALSE]

\* one pass of the loop over the search paths: getAllFiles, then the
\* shouldProcessFile filter; a rejected root throws inside getAllFiles and
\* the loop's catch records it
GatherRoot(searchPath, fileTypes, unread) ==
    FilterGathered(GetAllFiles(searchPath, EngineMaxDepth, << >>, {}, unread),
                   searchPath, fileTypes)

\* searchFunction(file): smartSearchInFile plus the file's metadata
WithFile(m, file) ==
    [line |-> m.line, matchType |-> m.matchType, relevanceScore |-> m.relevanceScore,
     file |-> file.relativePath, fullPath |-> file.path]

AttachFile(r, file) ==
    [r EXCEPT !.matches = [i \in 1..Len(r.matches) |-> WithFile(r.matches[i], file)]]

SearchFunction(file, q, caseSensitive, unread) ==
    AttachFile(SmartSearchInFile(file.path, q, caseSensitive, MaxMatchesPerFile, unread),
               file)

\* Promise.all without the catch on each promise: one rejected search rejects
\* the batch, and nothing of it is pushed
JoinBatchRejecting(rs) ==
    [matches   |-> IF \E i \in 1..Len(rs) : rs[i].errors # << >> THEN << >>
                   ELSE Flatten([i \in 1..Len(rs) |-> rs[i].matches]),
     errors    |-> Flatten([i \in 1..Len(rs) |-> rs[i].errors]),
     viols     |-> Flatten([i \in 1..Len(rs) |-> rs[i].viols]),
     processed |-> SeqSum([i \in 1..Len(rs) |-> rs[i].processed])]

\* await Promise.all(batchPromises), batchResults.flat(): the order of the files
JoinBatch(rs) ==
    [matches   |-> Flatten([i \in 1..Len(rs) |-> rs[i].matches]),
     errors    |-> Flatten([i \in 1..Len(rs) |-> rs[i].errors]),
     viols     |-> Flatten([i \in 1..Len(rs) |-> rs[i].viols]),
     processed |-> SeqSum([i \in 1..Len(rs) |-> rs[i].processed])]

\* one batch of processFilesInBatches
ProcessBatch(batch, q, caseSensitive, unread) ==
    JoinBatch([i \in 1..Len(batch) |-> SearchFunction(batch[i], q, caseSensitive, unread)])

\* files.slice(i, i + this.batchSize) for batch number b = 1, 2, ...
BatchOf(files, b) ==
    SubSeq(files, (b - 1) * BatchSize + 1,
           IF b * BatchSize < Len(files) THEN b * BatchSize ELSE Len(files))

NumBatches(files) == (Len(files) + BatchSize - 1) \div BatchSize

\* the early-termination test after a batch; callMaxResults is the maxResults
\* of the smartSearch call, which the test does not read
StopAfterBatch(resultCount, callMaxResults) == resultCount >= EngineMaxResults

\* a.file.localeCompare(b.file) on the relative paths of the tree, as the rank
\* of the path in the collation order of the path strings
PathRank(rel) ==
    CASE rel = <<"a.java">>                              -> 1
      [] rel = <<"app.yml">>                             -> 2
      [] rel = <<"build.gradle">>                        -> 3
      [] rel = <<"Gen", "g.java">>                       -> 4
      [] rel = <<"Loader.java">>                         -> 5
      [] rel = <<"plan.sql">>                            -> 6
      [] rel = <<"real.js">>                             -> 7
      [] rel = <<"run.sh">>                              -> 8
      [] rel = <<"s.java">>                              -> 9
      [] rel = <<"src", "b.js">>                         -> 10
      [] rel = <<"src", "deep", "c.md">>                 -> 11
      [] rel = <<"src", "deep", "deeper", "d.py">>       -> 12
      [] rel = <<"src", "p.png">>                        -> 13
      [] rel = <<"src", "shadow.js">>                    -> 14
      [] rel = <<"Store.java">>                          -> 15
      [] rel = <<"t.js">>                                -> 16
      [] OTHER                                           -> 17

LocaleCompare(a, b) == PathRank(a) - PathRank(b)

\* the comparator without its path tie-break
CompareScoreOnly(a, b) == b.relevanceScore - a.relevanceScore

\* the comparator of smartSearch's final sort
CompareResults(a, b) ==
    IF a.relevanceScore # b.relevanceScore
    THEN b.relevanceScore - a.relevanceScore
    ELSE LocaleCompare(a.file, b.file)

RECURSIVE InsertResult(_, _)
InsertResult(sorted, e) ==
    IF sorted = << >> THEN <<e>>
    ELSE IF CompareResults(Head(sorted), e) <= 0
         THEN <<Head(sorted)>> \o InsertResult(Tail(sorted), e)
         ELSE <<e>> \o sorted

RECURSIVE SortResults(_)
SortResults(s) ==
    IF s = << >> THEN << >>
    ELSE InsertResult(SortResults(SubSeq(s, 1, Len(s) - 1)), s[Len(s)])

\* the ranking without its slice
RankWithoutLimit(allResults, maxResults) == SortResults(allResults)

\* allResults.sort(...).slice(0, maxResults), and the slice of the return
RankAndLimit(allResults, maxResults) ==
    Take(Take(SortResults(allResults), maxResults), maxResults)

\* smartSearch as one function of its arguments and the environment: what
\* one await of it yields

NoneGathered ==
    [files |-> << >>, skipped |-> 0, viols |-> << >>, errors |-> << >>, threw |-> FALSE]

MergeGathered(a, b) ==
    [files   |-> a.files \o b.files,
     skipped |-> a.skipped + b.skipped,
     viols   |-> a.viols \o b.viols,
     errors  |-> a.errors \o b.errors,
     threw   |-> a.threw \/ b.threw]

\* the loop over the search paths; when a search path throws out of the loop,
\* the later paths are not read
RECURSIVE GatherAll(_, _, _)
GatherThen(g, paths, fileTypes, unread) ==
    IF g.threw THEN g ELSE MergeGathered(g, GatherAll(paths, fileTypes, unread))

GatherAll(paths, fileTypes, unread) ==
    IF paths = << >> THEN NoneGathered
    ELSE GatherThen(GatherRoot(Head(paths), fileTypes, unread), Tail(paths), fileTypes,
                    unread)

NoneSearched == [matches |-> << >>, errors |-> << >>, viols |-> << >>, processed |-> 0]

MergeSearched(a, b) ==
    [matches   |-> a.matches \o b.matches,
     errors    |-> a.errors \o b.errors,
     viols     |-> a.viols \o b.viols,
     processed |-> a.processed + b.processed]

\* processFilesInBatches from batch number b on, with count results so far
RECURSIVE BatchesFrom(_, _, _, _, _, _, _)
BatchesAfter(r, files, b, count, q, caseSensitive, unread, callMaxResults) ==
    IF StopAfterBatch(count + Len(r.matches), callMaxResults) THEN r
    ELSE MergeSearched(r, BatchesFrom(files, b + 1, count + Len(r.matches), q,
                                      caseSensitive, unread, callMaxResults))

BatchesFrom(files, b, count, q, caseSensitive, unread, callMaxResults) ==
    IF b > NumBatches(files) THEN NoneSearched
    ELSE BatchesAfter(ProcessBatch(BatchOf(files, b), q, caseSensitive, unread),
                      files, b, count, q, caseSensitive, unread, callMaxResults)

SearchAnswer(threw, results, g, r) ==
    [threw   |-> threw,
     results |-> results,
     errors  |-> g.errors \o r.errors,
     viols   |-> g.viols \o r.viols]

SearchProcessed(g, r, maxResults) ==
    SearchAnswer(FALSE, RankAndLimit(r.matches, maxResults), g, r)

\* smartSearch after the loop over the search paths
SearchGathered(g, q, fileTypes, maxResults, maxFiles, caseSensitive, unread) ==
    IF g.threw THEN SearchAnswer(TRUE, << >>, g, NoneSearched)
    ELSE IF FilterFilesByType(g.files, fileTypes) = << >>
        THEN SearchAnswer(FALSE, << >>, g, NoneSearched)
    ELSE SearchProcessed(g, BatchesFrom(Take(g.files, maxFiles), 1, 0, q, caseSensitive,
                                        unread, maxResults),
                         maxResults)

SmartSearch(q, searchPaths, fileTypes, maxResults, maxFiles, caseSensitive, unread) ==
    SearchGathered(GatherAll(searchPaths, fileTypes, unread), q, fileTypes, maxResults,
                   maxFiles, caseSensitive, unread)

---------------------------------------------------------------------------
(* RobustSearchEngine.searchInFiles / searchInFile / shouldSearchFile      *)
(* (src/search/searchEngine.js)                                            *)

\* config.search.maxDepth and config.files.maxFileSize (src/config/config.js)
RestMaxDepth == 5
RestMaxFileSize == 5242880

\* the defaults of searchInFiles and searchInFile
RestDefaultMaxResults == 200
RestDefaultMaxFiles == 5000
RestMaxMatches == 10

\* shouldSearchFile(extension, 'all'): the code and documentation extensions
ShouldSearchFile(ext) == ext \in {".java", ".js", ".py", ".md", ".txt"}

RestMatch(i, path) ==
    [line |-> i, matchType |-> "literal", relevanceScore |-> 0,
     file |-> path, fullPath |-> path]

\* the indexOf loop of searchInFile: the occurrences in content order, at most
\* maxMatches of them
RestMatchesInContent(path, q, caseSensitive) ==
    Take(Flatten([i \in 1..Len(Content(path)) |->
                    Repeat(RestMatch(i, path),
                           OccursFlag(q, Content(path)[i], caseSensitive))]),
         RestMaxMatches)

\* searchInFile(filePath, query, {caseSensitive})
RestSearchInFile(file, q, caseSensitive, unread) ==
    IF FileSize(file.path) > RestMaxFileSize
    THEN [matches |-> << >>, errors |-> << >>, processed |-> 0, skipped |-> 1]
    ELSE IF file.path \in unread
    THEN [matches |-> << >>, errors |-> FileError("Cannot read file", file.path),
          processed |-> 0, skipped |-> 0]
    ELSE [matches |-> RestMatchesInContent(file.path, q, caseSensitive), errors |-> << >>,
          processed |-> 1, skipped |-> 0]

\* one search path of searchInFiles
RestGatherOne(p, unread) ==
    IF (p.segs = << >> /\ ~p.abs) \/ Kind(Resolve(p)) = "none"
    THEN WalkError("Invalid search path", p.segs)
    ELSE GetAllFilesSync(Resolve(p), RestMaxDepth, 0, unread)

\* the loop over the search paths of searchInFiles
RECURSIVE RestGather(_, _)
RestGather(paths, unread) ==
    IF paths = << >> THEN NoFiles
    ELSE MergeFiles(RestGatherOne(Head(paths), unread), RestGather(Tail(paths), unread))

RestAccumulate(acc, r, file) ==
    [matches   |-> acc.matches \o r.matches,
     errors    |-> acc.errors \o r.errors,
     processed |-> acc.processed + r.processed,
     skipped   |-> acc.skipped + r.skipped,
     searched  |-> Append(acc.searched, file.path)]

\* the loop over the files of searchInFiles: no file is searched once
\* maxResults results have accumulated
RECURSIVE RestSearchLoop(_, _, _, _, _, _)
RestSearchLoop(acc, files, q, caseSensitive, maxResults, unread) ==
    IF files = << >> \/ Len(acc.matches) >= maxResults THEN acc
    ELSE RestSearchLoop(
            RestAccumulate(acc, RestSearchInFile(Head(files), q, caseSensitive, unread),
                           Head(files)),
            Tail(files), q, caseSensitive, maxResults, unread)

\* allResults.slice(0, maxResults)
RestLimit(allResults, maxResults) == Take(allResults, maxResults)

---------------------------------------------------------------------------
(* The search call as a state machine                                      *)

Proj    == AbsPath(<<"srv", "proj">>)
Other   == AbsPath(<<"srv", "other">>)
Scn     == AbsPath(<<"srv", "scn">>)
ProjX   == AbsPath(<<"srv", "projX">>)
Missing == AbsPath(<<"srv", "missing">>)
Blocked == AbsPath(<<"srv", "proj", "src", "shadow.js">>)

\* bounds of the inputs
MaxCeiling == 3
MaxFilesCeiling == 2

SearchPathLists ==
    { <<Proj>>, <<Proj, Proj>>, <<Proj, Other>>, <<Scn>>, << >>, <<Missing>>,
      <<EmptyString, Scn>>, <<Blocked>> }

\* an option is << >> when the caller leaves it out, <<n>> when it is given
OptionChoices(max) == {<< >>} \cup {<<n>> : n \in 0..max}

OptionOr(opt, default) == IF opt = << >> THEN default ELSE opt[1]

FileTypeChoices == { <<"all">>, <<"java">> }

UnreadableCandidates ==
    { <<"srv", "proj", "src", "deep">>, <<"srv", "proj", "a.java">> }

IdleSearch ==
    [pc |-> "idle", engine |-> "none", query |-> "", searchPaths |-> << >>,
     caseSensitive |-> FALSE, fileTypes |-> << >>, maxResults |-> 0, maxFiles |-> 0,
     rootIdx |-> 0, allFiles |-> << >>, filesToProcess |-> << >>, nextBatch |-> 0,
     results |-> << >>, searched |-> << >>, processedFiles |-> 0, skippedFiles |-> 0,
     errors |-> << >>, returned |-> << >>]

IdleGuard == [n |-> 0, path |-> EmptyString, valid |-> FALSE, code |-> "NONE"]

IdleWalk ==
    [engine |-> "none", root |-> EmptyString, maxDepth |-> 0, skipDirs |-> << >>,
     extensions |-> {}, threw |-> FALSE, files |-> << >>, errors |-> << >>]

IdleCall == [op |-> "none"]

IdleTrace ==
    [pc |-> "idle", log |-> "", searchPaths |-> << >>, idx |-> 0, results |-> << >>,
     searchedQueries |-> {}, issued |-> << >>,
     returned |-> [sentinel |-> TRUE, entries |-> << >>]]

\* smartSearch up to its first directory read: the options' defaults and the
\* reset of the engine's counters
StartSmartSearch(q, paths, cs, ft, mr, mf) ==
    /\ search.pc = "idle"
    /\ search' = [IdleSearch EXCEPT
                    !.pc = "gather", !.engine = "smart", !.query = q,
                    !.searchPaths = paths, !.caseSensitive = cs, !.fileTypes = ft,
                    !.maxResults = OptionOr(mr, EngineMaxResults),
                    !.maxFiles = OptionOr(mf, MaxFilesToProcess),
                    !.rootIdx = 1]
    /\ UNCHANGED <<call, unreadable, securityLog, guardCall, walkCall, trace>>

AfterGather(s, g) ==
    [s EXCEPT !.pc = IF g.threw THEN "threw" ELSE @,
              !.rootIdx = @ + 1,
              !.allFiles = @ \o g.files,
              !.skippedFiles = @ + g.skipped,
              !.errors = @ \o g.errors]

GatherOutcome(s, log, g) == [search |-> AfterGather(s, g), log |-> LogAll(log, g.viols)]

\* one search path: getAllFiles and the shouldProcessFile filter
GatherStep ==
    /\ search.pc = "gather"
    /\ search.rootIdx <= Len(search.searchPaths)
    /\ LET o == GatherOutcome(search, securityLog,
                    GatherRoot(search.searchPaths[search.rootIdx], search.fileTypes,
                               unreadable))
       IN  search' = o.search /\ securityLog' = o.log
    /\ UNCHANGED <<call, unreadable, guardCall, walkCall, trace>>

\* after the last search path: the type filter, the early return when no
\* file is left, and the maxFiles limit
PrepareBatches ==
    /\ search.pc = "gather"
    /\ search.rootIdx > Len(search.searchPaths)
    /\ IF FilterFilesByType(search.allFiles, search.fileTypes) = << >>
       THEN search' = [search EXCEPT !.pc = "done", !.returned = << >>]
       ELSE search' = [search EXCEPT
                         !.pc = "batch", !.nextBatch = 1,
                         !.filesToProcess = Take(search.allFiles, search.maxFiles)]
    /\ UNCHANGED <<call, unreadable, securityLog, guardCall, walkCall, trace>>

AfterBatch(s, batch, r) ==
    [s EXCEPT !.results = @ \o r.matches,
              !.errors = @ \o r.errors,
              !.processedFiles = @ + r.processed,
              !.searched = @ \o [i \in 1..Len(batch) |-> batch[i].path],
              !.nextBatch = @ + 1,
              !.pc = IF StopAfterBatch(Len(s.results) + Len(r.matches), s.maxResults)
                     THEN "rank" ELSE "batch"]

BatchOutcome(s, log, batch, r) ==
    [search |-> AfterBatch(s, batch, r), log |-> LogAll(log, r.viols)]

\* one batch of processFilesInBatches, joined, and the early-termination test
BatchStep ==
    /\ search.pc = "batch"
    /\ search.nextBatch <= NumBatches(search.filesToProcess)
    /\ LET o == BatchOutcome(search, securityLog,
                    BatchOf(search.filesToProcess, search.nextBatch),
                    ProcessBatch(BatchOf(search.filesToProcess, search.nextBatch),
                                 search.query, search.caseSensitive, unreadable))
       IN  search' = o.search /\ securityLog' = o.log
    /\ UNCHANGED <<call, unreadable, guardCall, walkCall, trace>>

\* the batches are exhausted
BatchesDone ==
    /\ search.pc = "batch"
    /\ search.nextBatch > NumBatches(search.filesToProcess)
    /\ search' = [search EXCEPT !.pc = "rank"]
    /\ UNCHANGED <<call, unreadable, securityLog, guardCall, walkCall, trace>>

\* the final sort and slice, and the return
FinishSearch ==
    /\ search.pc = "rank"
    /\ search' = [search EXCEPT
                    !.pc = "done",
                    !.returned = RankAndLimit(search.results, search.maxResults)]
    /\ UNCHANGED <<call, unreadable, securityLog, guardCall, walkCall, trace>>

EmptyLoop ==
    [matches |-> << >>, errors |-> << >>, processed |-> 0, skipped |-> 0, searched |-> << >>]

RestReturn(q, paths, cs, maxResults, maxFiles, g, limited, r) ==
    [IdleSearch EXCEPT
        !.pc = "done", !.engine = "rest", !.query = q, !.searchPaths = paths,
        !.caseSensitive = cs, !.fileTypes = <<"all">>,
        !.maxResults = maxResults, !.maxFiles = maxFiles,
        !.allFiles = g.files, !.filesToProcess = limited,
        !.results = r.matches, !.searched = r.searched,
        !.processedFiles = r.processed, !.skippedFiles = r.skipped,
        !.errors = g.errors \o r.errors,
        !.returned = RestLimit(r.matches, maxResults)]

\* searchInFiles after the search paths were walked (g): the extension
\* filter, the early return (an empty file list searches nothing), the
\* maxFiles limit and the search loop
RestSearchGathered(q, paths, cs, maxResults, maxFiles, g, limited, unread) ==
    RestReturn(q, paths, cs, maxResults, maxFiles, g, limited,
               RestSearchLoop(EmptyLoop, limited, q, cs, maxResults, unread))

RestFilesToSearch(g, maxFiles) ==
    Take(SelectSeq(g.files, LAMBDA f : ShouldSearchFile(f.extension)), maxFiles)

RestSearchWalked(q, paths, cs, maxResults, maxFiles, g, unread) ==
    RestSearchGathered(q, paths, cs, maxResults, maxFiles, g,
                       RestFilesToSearch(g, maxFiles), unread)

\* searchInFiles of the REST engine: synchronous, one step
RestSearchInFiles(q, paths, cs, mr, mf) ==
    /\ search.pc = "idle"
    /\ search' = RestSearchWalked(q, paths, cs, OptionOr(mr, RestDefaultMaxResults),
                                  OptionOr(mf, RestDefaultMaxFiles),
                                  RestGather(paths, unreadable), unreadable)
    /\ UNCHANGED <<call, unreadable, securityLog, guardCall, walkCall, trace>>

Init ==
    /\ unreadable \in SUBSET UnreadableCandidates
    /\ securityLog = << >>
    /\ guardCall = IdleGuard
    /\ walkCall = IdleWalk
    /\ search = IdleSearch
    /\ trace = IdleTrace
    /\ call = IdleCall

StartSmart ==
    \E q \in Queries, paths \in SearchPathLists, cs \in BOOLEAN, ft \in FileTypeChoices,
       mr \in OptionChoices(MaxCeiling), mf \in OptionChoices(MaxFilesCeiling) :
        StartSmartSearch(q, paths, cs, ft, mr, mf)

StartRest ==
    \E q \in Queries, paths \in SearchPathLists, cs \in BOOLEAN,
       mr \in OptionChoices(MaxCeiling), mf \in OptionChoices(MaxFilesCeiling) :
        RestSearchInFiles(q, paths, cs, mr, mf)

NextSearch ==
    \/ StartSmart
    \/ GatherStep
    \/ PrepareBatches
    \/ BatchStep
    \/ BatchesDone
    \/ FinishSearch
    \/ StartRest

SpecSearch == Init /\ [][NextSearch]_vars

---------------------------------------------------------------------------
(* Claims about search                                                     *)

SearchDone(engine) == search.pc = "done" /\ search.engine = engine

\* C1: the results list a search returns (smartSearch, and searchInFiles of the
\* REST engine) holds at most maxResults matches
C1_AtMostMaxResults ==
    search.pc = "done" => Len(search.returned) <= search.maxResults

\* a smartSearch that found more matches than its ceiling and returned
\* exactly the ceiling
C1_Witness ==
    /\ SearchDone("smart")
    /\ search.maxResults > 0
    /\ Len(search.results) > search.maxResults
    /\ Len(search.returned) = search.maxResults

\* C2: no two results of one smartSearch call have the same (file, line)
C2_NoDuplicateFileLine ==
    SearchDone("smart") =>
        \A i, j \in 1..Len(search.returned) :
            i # j => <<search.returned[i].file, search.returned[i].line>>
                        # <<search.returned[j].file, search.returned[j].line>>

\* C3: the results of smartSearch are ordered by score descending, then by
\* file path ascending
C3_SortedByScoreThenPath ==
    SearchDone("smart") =>
        \A i \in 1..(Len(search.returned) - 1) :
            LET a == search.returned[i]
                b == search.returned[i + 1]
            IN  \/ a.relevanceScore > b.relevanceScore
                \/ /\ a.relevanceScore = b.relevanceScore
                   /\ PathRank(a.file) <= PathRank(b.file)

\* a result list with a drop in score and with a tie broken by the path
C3_Witness ==
    /\ SearchDone("smart")
    /\ \E i \in 1..(Len(search.returned) - 1) :
          search.returned[i].relevanceScore > search.returned[i + 1].relevanceScore
    /\ \E i \in 1..(Len(search.returned) - 1) :
          /\ search.returned[i].relevanceScore = search.returned[i + 1].relevanceScore
          /\ PathRank(search.returned[i].file) < PathRank(search.returned[i + 1].file)

\* C4: once the results accumulated after a joined batch have reached the
\* call's maxResults, no file of a later batch is searched
C4_NoBatchAfterCeiling ==
    [][(/\ search.pc = "batch"
        /\ search.nextBatch > 1
        /\ Len(search.results) >= search.maxResults)
       => search'.searched = search.searched]_vars

---------------------------------------------------------------------------
(* The Path Guard called on its own                                        *)

\* bound on the number of validatePath calls of one behaviour
MaxGuardCalls == 2

GuardInputs ==
    { EmptyString,
      AbsPath(<<"srv", "proj", "a.java">>),
      RelPath(<<"src", "b.js">>),
      RelPath(<<"src", "..", "a.java">>),
      AbsPath(<<"srv", "proj", "a..b">>),
      AbsPath(<<"long4097">>),
      Blocked,
      Missing,
      AbsPath(<<"etc">>),
      AbsPath(<<"etc", "passwd">>),
      AbsPath(<<"home", "other", "x.txt">>),
      AbsPath(<<"srv", "other">>),
      AbsPath(<<"srv", "proj", "link">>),
      AbsPath(<<"srv", "proj", "outlink">>),
      AbsPath(<<"srv", "proj", "pwlink">>) }

GuardAnswer(n, p, v) == [n |-> n + 1, path |-> p, valid |-> v.valid, code |-> v.code]

GuardOutcome(n, log, p, v) ==
    [call |-> GuardAnswer(n, p, v), log |-> LogAll(log, v.viols)]

\* one call of pathValidator.validatePath(p)
ValidatePathCall(p) ==
    /\ guardCall.n < MaxGuardCalls
    /\ LET o == GuardOutcome(guardCall.n, securityLog, p, ValidatePath(p))
       IN  guardCall' = o.call /\ securityLog' = o.log
    /\ UNCHANGED <<call, unreadable, walkCall, search, trace>>

NextGuard == \E p \in GuardInputs : ValidatePathCall(p)

SpecGuard == Init /\ [][NextGuard]_vars

\* the path lies under one of the configured allowed roots
UnderAllowedRoot(a) == \E r \in AllowedPaths : IsPrefix(r, a)

\* C5: validatePath never returns valid for a path whose resolved absolute
\* form lies outside every allowed root
C5_ValidOnlyUnderAllowedRoot ==
    (guardCall.n > 0 /\ guardCall.valid) => UnderAllowedRoot(Resolve(guardCall.path))

\* C6: a symbolic link whose target lies outside the allowed roots or in a
\* denylisted location is never valid, wherever the link itself sits
C6_EscapingSymlinkRejected ==
    (/\ guardCall.n > 0
     /\ Kind(Resolve(guardCall.path)) = "link"
     /\ \/ ~UnderAllowedRoot(LinkTarget(Resolve(guardCall.path)))
        \/ BlockedPath(LinkTarget(Resolve(guardCall.path))))
    => ~guardCall.valid

---------------------------------------------------------------------------
(* The walkers called on their own                                         *)

\* bounds on the inputs of a walk
MaxWalkDepth == 4

WalkRoots == {Proj, Scn, ProjX, Other, Missing, Blocked, RelPath(<<"src">>)}

SkipDirChoices == { << >>, <<"Gen">>, <<"src">>, <<"deep">> }

ExtensionChoices == { {}, {".js"} }

WalkAnswer(engine, root, maxDepth, skipDirs, extensions, r) ==
    [engine |-> engine, root |-> root, maxDepth |-> maxDepth, skipDirs |-> skipDirs,
     extensions |-> extensions, threw |-> r.threw, files |-> r.files,
     errors |-> r.errors]

WalkOutcome(log, engine, root, maxDepth, skipDirs, extensions, r) ==
    [call |-> WalkAnswer(engine, root, maxDepth, skipDirs, extensions, r),
     log  |-> LogAll(log, r.viols)]

\* one call of SmartSearchEngine.getAllFiles(root, {maxDepth, extensions, skipDirs})
WalkSmart(root, maxDepth, skipDirs, extensions) ==
    /\ walkCall.engine = "none"
    /\ LET o == WalkOutcome(securityLog, "smart", root, maxDepth, skipDirs, extensions,
                     GetAllFiles(root, maxDepth, skipDirs, extensions, unreadable))
       IN  walkCall' = o.call /\ securityLog' = o.log
    /\ UNCHANGED <<call, unreadable, guardCall, search, trace>>

SyncResult(r) == [threw |-> FALSE, files |-> r.files, errors |-> r.errors]

\* one call of RobustSearchEngine.getAllFilesSync(root, maxDepth)
WalkRest(root, maxDepth) ==
    /\ walkCall.engine = "none"
    /\ walkCall' = WalkAnswer("rest", root, maxDepth, << >>, {},
                       SyncResult(GetAllFilesSync(Resolve(root), maxDepth, 0, unreadable)))
    /\ UNCHANGED <<call, unreadable, securityLog, guardCall, search, trace>>

StartWalkSmart ==
    \E root \in WalkRoots, d \in 0..MaxWalkDepth, sk \in SkipDirChoices,
       ext \in ExtensionChoices : WalkSmart(root, d, sk, ext)

StartWalkRest == \E root \in WalkRoots, d \in 0..MaxWalkDepth : WalkRest(root, d)

NextWalk == StartWalkSmart \/ StartWalkRest

SpecWalk == Init /\ [][NextWalk]_vars

Walked == walkCall.engine # "none"

\* the number of directory levels of a returned file below the walk root
LevelsBelowRoot(f) == Len(f.path) - Len(Resolve(walkCall.root))

\* the names of the directories between the walk root and a returned file
DirsBetween(f) ==
    { f.path[i] : i \in (Len(Resolve(walkCall.root)) + 1)..(Len(f.path) - 1) }

\* C7: a walk with maxDepth = d returns no file more than d directory levels
\* below its root, and no file at all when d = 0
C7_NoFileBelowMaxDepth ==
    Walked =>
        /\ \A i \in 1..Len(walkCall.files) :
              LevelsBelowRoot(walkCall.files[i]) <= walkCall.maxDepth
        /\ walkCall.maxDepth = 0 => walkCall.files = << >>

\* a walk of the project that returns a file at the deepest level allowed and
\* leaves out the files that the tree holds further down
C7_Witness ==
    /\ Walked
    /\ walkCall.root = Proj
    /\ walkCall.maxDepth = 2
    /\ \E i \in 1..Len(walkCall.files) : LevelsBelowRoot(walkCall.files[i]) = 2
    /\ \A i \in 1..Len(walkCall.files) : walkCall.files[i].name # "c.md"
    /\ <<"srv", "proj", "src", "deep">> \notin unreadable

\* C8: no returned file lies under a directory that is in the default
\* skip-set, is hidden, or is in the caller's skipDirs; the tree with
\* node_modules/, .git/ and one real source file yields exactly that file
C8_NoFileUnderSkippedDir ==
    Walked =>
        /\ \A i \in 1..Len(walkCall.files) :
              \A n \in DirsBetween(walkCall.files[i]) :
                  /\ n \notin DefaultSkipDirs
                  /\ ~StartsWithDot(n)
                  /\ n \notin Range(walkCall.skipDirs)
        /\ (walkCall.root = Scn /\ walkCall.maxDepth >= 1 /\ walkCall.extensions = {})
             => /\ Len(walkCall.files) = 1
                /\ walkCall.files[1].path = <<"srv", "scn", "real.js">>

---------------------------------------------------------------------------
(* Log tracing: SmartSearchEngine.traceErrorLogToSource and its helpers     *)
(* (src/index.js)                                                          *)

\* The logs of the model
LogBlank == " zzz  qqq "
LogShort == "ab"
LogFoo   == "Foo"
LogMany  == "Foo( foo( a.java"
LogFull  == "FooError: disk 12345 unreachable"
LogQuote == "\"Foo\" - upload 12345 failed"

Logs == {LogBlank, LogShort, LogFoo, LogMany, LogFull, LogQuote}

\* extractKeyPhrases(log): class names, method names before a parenthesis, the
\* message after "error:", quoted strings, stack elements, file names
ExtractKeyPhrases(log) ==
    CASE log = LogMany  -> <<"Foo", "foo", "a.java">>
      [] log = LogFull  -> <<"disk 12345 unreachable">>
      [] log = LogQuote -> <<"Foo">>
      [] OTHER          -> << >>

\* normalizeLogText(log, 'light'): whitespace runs collapse, the ends are trimmed
NormalizeLight(log) == IF log = LogBlank THEN "zzz qqq" ELSE log

\* normalizeLogText(log, 'moderate'): quoted strings become STR, long numbers
\* NUM, camelCase is split, the text is lowercased and its whitespace collapsed
NormalizeModerate(log) ==
    CASE log = LogBlank -> "zzz qqq"
      [] log = LogShort -> "ab"
      [] log = LogFoo   -> "foo"
      [] log = LogMany  -> "foo( foo( a.java"
      [] log = LogFull  -> "foo error: disk num unreachable"
      [] log = LogQuote -> "str - upload num failed"
      [] OTHER          -> log

\* normalizeLogText(log, 'heavy'): the moderate form with its punctuation
\* (dots excepted) turned into spaces, whitespace collapsed, ends trimmed
NormalizeHeavy(log) ==
    CASE NormalizeModerate(log) = "foo( foo( a.java" -> "foo foo a.java"
      [] NormalizeModerate(log) = "foo error: disk num unreachable"
                                                     -> "foo error disk num unreachable"
      [] NormalizeModerate(log) = "str - upload num failed" -> "str upload num failed"
      [] OTHER                                       -> NormalizeModerate(log)

NormalizeLogText(log, level) ==
    IF level = "light" THEN NormalizeLight(log)
    ELSE IF level = "heavy" THEN NormalizeHeavy(log)
    ELSE NormalizeModerate(log)

\* moderateNormalized.split(/[:\-|]/)
SplitDelimiters(text) ==
    CASE text = "foo error: disk num unreachable" ->
            <<"foo error", " disk num unreachable">>
      [] text = "str - upload num failed" -> <<"str ", " upload num failed">>
      [] OTHER -> <<text>>

\* phrase.trim()
Trim(phrase) ==
    CASE phrase = " disk num unreachable" -> "disk num unreachable"
      [] phrase = " upload num failed"    -> "upload num failed"
      [] phrase = "str "                  -> "str"
      [] OTHER                            -> phrase

\* extractErrorTypes(log): the words ending in Exception, Error, Fault, ...
ExtractErrorTypes(log) == IF log = LogFull THEN <<"FooError">> ELSE << >>

\* originalLog.toLowerCase().includes(word)
LogMentions(log, word) == log = LogMany /\ word = "java"

\* the fileTypes trySearch passes when the caller gives none
TraceFileTypes ==
    <<"java", "javascript", "python", "cpp", "csharp", "web", "config", "build",
      "docs", "sql", "shell">>

\* the numbers of traceErrorLogToSource
MinQueryLength == 3
TraceMaxResults == 3
EnoughResults == 5
FewResults == 3
MinPhraseLength == 10
TraceTop == 3
ContextLines == 3

\* result.context.toLowerCase().includes(query.toLowerCase()): the context is
\* the lines from ContextLines before the match to ContextLines after it
ContextIncludes(query, r) ==
    \E j \in 1..Len(Content(r.fullPath)) :
        /\ j >= r.line - ContextLines
        /\ j <= r.line + ContextLines
        /\ OccursFlag(query, Content(r.fullPath)[j], FALSE) > 0

\* result.file.endsWith(ext)
FileEndsWith(r, ext) == ExtName(r.file[Len(r.file)]) = ext

\* calculateRelevance(query, result, originalLog); no path of the tree holds
\* 'error' or 'exception'
CalculateRelevance(query, r, context, log) ==
      (IF ContextIncludes(query, r) THEN 10 ELSE 0)
    + (IF LogMentions(log, "java") /\ FileEndsWith(r, ".java") THEN 5 ELSE 0)
    + (IF LogMentions(log, "javascript") /\ FileEndsWith(r, ".js") THEN 5 ELSE 0)
    + (IF LogMentions(log, "python") /\ FileEndsWith(r, ".py") THEN 5 ELSE 0)
    + (CASE context = "key_phrase"       -> 8
         [] context = "light_normalized" -> 5
         [] context = "error_type"       -> 4
         [] OTHER                        -> 0)

\* the forEach of trySearch over the results of one search
Scored(results, query, context, log) ==
    [i \in 1..Len(results) |->
        [file |-> results[i].file, fullPath |-> results[i].fullPath,
         line |-> results[i].line, searchContext |-> context,
         relevanceScore |-> CalculateRelevance(query, results[i], context, log)]]

\* a deduplication that keeps the first result of each (file, line) as it is
RECURSIVE KeepFirstResults(_, _)
KeepFirstResults(unique, results) ==
    IF results = << >> THEN unique
    ELSE IF \E i \in 1..Len(unique) :
                unique[i].file = Head(results).file /\ unique[i].line = Head(results).line
         THEN KeepFirstResults(unique, Tail(results))
         ELSE KeepFirstResults(Append(unique, Head(results)), Tail(results))

\* deduplicateResults: the first result of each (file, line) stays, and takes
\* the score and the context of a later duplicate that scores higher
RECURSIVE DeduplicateResults(_, _)
DeduplicateResults(unique, results) ==
    IF results = << >> THEN unique
    ELSE LET r == Head(results)
             at == {i \in 1..Len(unique) :
                        unique[i].file = r.file /\ unique[i].line = r.line}
         IN  IF at = {} THEN DeduplicateResults(Append(unique, r), Tail(results))
             ELSE LET i == CHOOSE j \in at : TRUE IN
                  IF r.relevanceScore > unique[i].relevanceScore
                  THEN DeduplicateResults(
                          [unique EXCEPT ![i].relevanceScore = r.relevanceScore,
                                         ![i].searchContext = r.searchContext],
                          Tail(results))
                  ELSE DeduplicateResults(unique, Tail(results))

\* uniqueResults.sort((a, b) => (b.relevanceScore || 0) - (a.relevanceScore || 0))
RECURSIVE InsertByRelevance(_, _)
InsertByRelevance(sorted, e) ==
    IF sorted = << >> THEN <<e>>
    ELSE IF e.relevanceScore - Head(sorted).relevanceScore <= 0
         THEN <<Head(sorted)>> \o InsertByRelevance(Tail(sorted), e)
         ELSE <<e>> \o sorted

RECURSIVE SortByRelevance(_)
SortByRelevance(s) ==
    IF s = << >> THEN << >>
    ELSE InsertByRelevance(SortByRelevance(SubSeq(s, 1, Len(s) - 1)), s[Len(s)])

\* the value trace returns when nothing was found:
\* 'No matching source found for the error log.'
NoMatchSentinel == [sentinel |-> TRUE, entries |-> << >>]

\* formatTraceResult(results): the sentinel, or one entry per result
FormatTraceResult(results) ==
    IF results = << >> THEN NoMatchSentinel
    ELSE [sentinel |-> FALSE, entries |-> results]

\* step 5 of traceErrorLogToSource
TraceReturn(results) ==
    IF Len(results) = 0 THEN NoMatchSentinel
    ELSE FormatTraceResult(Take(SortByRelevance(DeduplicateResults(<< >>, results)),
                                TraceTop))

Db == AbsPath(<<"srv", "db">>)

TracePathLists ==
    { <<Proj>>, <<Other>>, <<Scn>>, <<Db>>, <<Blocked, Other>>, <<Missing>>, << >> }

TraceStarted(log, paths) ==
    [pc |-> "key", log |-> log, searchPaths |-> paths, idx |-> 1, results |-> << >>,
     searchedQueries |-> {}, issued |-> << >>, returned |-> NoMatchSentinel]

Issue(query, context, before, found) ==
    [query |-> query, context |-> context, before |-> before, found |-> found]

\* trySearch after its smartSearch answered ans
Searched(t, log, query, context, ans) ==
    [trace |-> [t EXCEPT
                  !.pc = IF ans.threw THEN "threw" ELSE @,
                  !.searchedQueries = @ \cup {query},
                  !.issued = Append(@, Issue(query, context, Len(t.results),
                                             Len(ans.results))),
                  !.results = @ \o Scored(ans.results, query, context, t.log)],
     log   |-> LogAll(log, ans.viols)]

\* trySearch(query, context): nothing when the query was searched before or is
\* shorter than MinQueryLength
TrySearch(t, log, query, context, unread) ==
    IF query \in t.searchedQueries \/ Len(query) < MinQueryLength
    THEN [trace |-> t, log |-> log]
    ELSE Searched(t, log, query, context,
                  SmartSearch(query, t.searchPaths, TraceFileTypes, TraceMaxResults,
                              MaxFilesToProcess, FALSE, unread))

\* where the call goes on after a step, unless a search threw
Advance(o, pc, idx) ==
    IF o.trace.pc = "threw" THEN o
    ELSE [o EXCEPT !.trace.pc = pc, !.trace.idx = idx]

\* the end of a loop body: break once EnoughResults have accumulated
LoopAdvance(o, idx, after) ==
    IF Len(o.trace.results) >= EnoughResults THEN Advance(o, after, 1)
    ELSE Advance(o, o.trace.pc, idx + 1)

StartTrace(log, paths) ==
    /\ trace.pc = "idle"
    /\ trace' = TraceStarted(log, paths)
    /\ UNCHANGED <<call, unreadable, securityLog, guardCall, walkCall, search>>

\* 1. one key phrase
KeyPhraseStep ==
    /\ trace.pc = "key"
    /\ trace.idx <= Len(ExtractKeyPhrases(trace.log))
    /\ LET o == LoopAdvance(TrySearch(trace, securityLog,
                                      ExtractKeyPhrases(trace.log)[trace.idx],
                                      "key_phrase", unreadable),
                            trace.idx, "light")
       IN  trace' = o.trace /\ securityLog' = o.log
    /\ UNCHANGED <<call, unreadable, guardCall, walkCall, search>>

KeyPhrasesDone ==
    /\ trace.pc = "key"
    /\ trace.idx > Len(ExtractKeyPhrases(trace.log))
    /\ trace' = [trace EXCEPT !.pc = "light", !.idx = 1]
    /\ UNCHANGED <<call, unreadable, securityLog, guardCall, walkCall, search>>

\* 2. the light-normalized log
LightStep ==
    /\ trace.pc = "light"
    /\ LET o == IF Len(trace.results) < FewResults
                THEN Advance(TrySearch(trace, securityLog,
                                       NormalizeLogText(trace.log, "light"),
                                       "light_normalized", unreadable),
                             "moderate", 1)
                ELSE Advance([trace |-> trace, log |-> securityLog], "moderate", 1)
       IN  trace' = o.trace /\ securityLog' = o.log
    /\ UNCHANGED <<call, unreadable, guardCall, walkCall, search>>

\* 3. the moderate-normalized log
ModerateStep ==
    /\ trace.pc = "moderate"
    /\ LET o == IF Len(trace.results) < FewResults
                THEN Advance(TrySearch(trace, securityLog,
                                       NormalizeLogText(trace.log, "moderate"),
                                       "moderate_normalized", unreadable),
                             "parts", 1)
                ELSE Advance([trace |-> trace, log |-> securityLog], "types", 1)
       IN  trace' = o.trace /\ securityLog' = o.log
    /\ UNCHANGED <<call, unreadable, guardCall, walkCall, search>>

PhraseParts(log) == SplitDelimiters(NormalizeLogText(log, "moderate"))

\* 3. one part of the moderate-normalized log
PhrasePartStep ==
    /\ trace.pc = "parts"
    /\ trace.idx <= Len(PhraseParts(trace.log))
    /\ LET o == IF Len(PhraseParts(trace.log)[trace.idx]) > MinPhraseLength
                THEN LoopAdvance(TrySearch(trace, securityLog,
                                           Trim(PhraseParts(trace.log)[trace.idx]),
                                           "phrase_part", unreadable),
                                 trace.idx, "types")
                ELSE Advance([trace |-> trace, log |-> securityLog], "parts",
                             trace.idx + 1)
       IN  trace' = o.trace /\ securityLog' = o.log
    /\ UNCHANGED <<call, unreadable, guardCall, walkCall, search>>

PhrasePartsDone ==
    /\ trace.pc = "parts"
    /\ trace.idx > Len(PhraseParts(trace.log))
    /\ trace' = [trace EXCEPT !.pc = "types", !.idx = 1]
    /\ UNCHANGED <<call, unreadable, securityLog, guardCall, walkCall, search>>

\* 4. the test before the error types
EnterErrorTypes ==
    /\ trace.pc = "types"
    /\ trace' = [trace EXCEPT
                    !.pc = IF Len(trace.results) < FewResults THEN "type" ELSE "return",
                    !.idx = 1]
    /\ UNCHANGED <<call, unreadable, securityLog, guardCall, walkCall, search>>

\* 4. one error type
ErrorTypeStep ==
    /\ trace.pc = "type"
    /\ trace.idx <= Len(ExtractErrorTypes(trace.log))
    /\ LET o == LoopAdvance(TrySearch(trace, securityLog,
                                      ExtractErrorTypes(trace.log)[trace.idx],
                                      "error_type", unreadable),
                            trace.idx, "return")
       IN  trace' = o.trace /\ securityLog' = o.log
    /\ UNCHANGED <<call, unreadable, guardCall, walkCall, search>>

ErrorTypesDone ==
    /\ trace.pc = "type"
    /\ trace.idx > Len(ExtractErrorTypes(trace.log))
    /\ trace' = [trace EXCEPT !.pc = "return", !.idx = 1]
    /\ UNCHANGED <<call, unreadable, securityLog, guardCall, walkCall, search>>

\* 5. the return
FinishTrace ==
    /\ trace.pc = "return"
    /\ trace' = [trace EXCEPT !.pc = "done", !.returned = TraceReturn(trace.results)]
    /\ UNCHANGED <<call, unreadable, securityLog, guardCall, walkCall, search>>

TraceErrorLogToSource == \E log \in Logs, paths \in TracePathLists : StartTrace(log, paths)

NextTrace ==
    \/ TraceErrorLogToSource
    \/ KeyPhraseStep
    \/ KeyPhrasesDone
    \/ LightStep
    \/ ModerateStep
    \/ PhrasePartStep
    \/ PhrasePartsDone
    \/ EnterErrorTypes
    \/ ErrorTypeStep
    \/ ErrorTypesDone
    \/ FinishTrace

SpecTrace == Init /\ [][NextTrace]_vars

Tracing == trace.pc # "idle"

\* C9: trace never throws, whatever the log and the roots, and returns exactly
\* the sentinel when every search it issued found nothing
C9_NeverThrowsAndSentinel ==
    /\ trace.pc # "threw"
    /\ (/\ trace.pc = "done"
        /\ \A i \in 1..Len(trace.issued) : trace.issued[i].found = 0)
       => trace.returned = NoMatchSentinel

\* a trace over a rejected root and a readable one that issued a search in
\* every strategy, found nothing, and returned the sentinel
C9_Witness ==
    /\ trace.pc = "done"
    /\ Blocked \in Range(trace.searchPaths)
    /\ {trace.issued[i].context : i \in 1..Len(trace.issued)} =
          {"key_phrase", "light_normalized", "moderate_normalized", "phrase_part",
           "error_type"}
    /\ \A i \in 1..Len(trace.issued) : trace.issued[i].found = 0
    /\ trace.returned = NoMatchSentinel

StrategyRank(context) ==
    CASE context = "key_phrase"          -> 1
      [] context = "light_normalized"    -> 2
      [] context = "moderate_normalized" -> 3
      [] context = "phrase_part"         -> 4
      [] OTHER                           -> 5

\* the first search of its strategy among the searches issued
FirstOfStrategy(i) ==
    \A j \in 1..(i - 1) : trace.issued[j].context # trace.issued[i].context

\* C10: the searches are issued in the order key phrases, light, moderate, its
\* parts, error types; the light, the moderate and the error-type strategy
\* start only with fewer than 3 results; no search is issued once 5 results
\* have accumulated
C10_StrategyOrderAndStop ==
    Tracing =>
        /\ \A i \in 1..(Len(trace.issued) - 1) :
              StrategyRank(trace.issued[i].context)
                 <= StrategyRank(trace.issued[i + 1].context)
        /\ \A i \in 1..Len(trace.issued) :
              (/\ trace.issued[i].context \in
                     {"light_normalized", "moderate_normalized", "error_type"}
               /\ FirstOfStrategy(i))
              => trace.issued[i].before < FewResults
        /\ \A i \in 1..Len(trace.issued) : trace.issued[i].before < EnoughResults

\* ---------------------------------------------------------------------------
\* normalizeLogText at level 'moderate', computed on texts as sequences of
\* characters.  The steps are the regular-expression replacements of the
\* code, in the code's order.  The texts considered are written with the
\* characters of WordChars, the blank and '%'; the replacements for UUIDs,
\* IP addresses, e-mails, file paths, timestamps, quoted strings, ${..} and
\* {..} placeholders and floats each need one of - . @ / \ : " ' $ { to
\* match, so they leave every such text unchanged.
\* ---------------------------------------------------------------------------

Lowers == <<"a","b","c","d","e","f","g","h","i","j","k","l","m",
            "n","o","p","q","r","s","t","u","v","w","x","y","z">>

Uppers == <<"A","B","C","D","E","F","G","H","I","J","K","L","M",
            "N","O","P","Q","R","S","T","U","V","W","X","Y","Z">>

Digits == {"0","1","2","3","4","5","6","7","8","9"}

HexDigits == Digits \cup {"a","b","c","d","e","f","A","B","C","D","E","F"}

WordChars == Digits \cup Range(Lowers) \cup Range(Uppers) \cup {"_"}

HexToken == <<"H","E","X">>

NumToken == <<"N","U","M">>

PlaceholderToken == <<"P","L","A","C","E","H","O","L","D","E","R">>

\* the number of consecutive characters of class from position i on
RECURSIVE RunLength(_, _, _)
RunLength(s, i, class) ==
    IF i > Len(s) \/ s[i] \notin class THEN 0
    ELSE 1 + RunLength(s, i + 1, class)

\* \b at the gap before position i
WordBoundary(s, i) ==
    LET before == i > 1 /\ i - 1 <= Len(s) /\ s[i - 1] \in WordChars
        after  == i >= 1 /\ i <= Len(s) /\ s[i] \in WordChars
    IN  before # after

\* step 2: /0x[0-9a-fA-F]+/g -> 'HEX'
RECURSIVE ReplaceHex(_, _)
ReplaceHex(s, i) ==
    IF i > Len(s) THEN << >>
    ELSE IF /\ s[i] = "0"
            /\ i + 2 <= Len(s)
            /\ s[i + 1] = "x"
            /\ s[i + 2] \in HexDigits
         THEN HexToken \o ReplaceHex(s, i + 2 + RunLength(s, i + 2, HexDigits))
         ELSE <<s[i]>> \o ReplaceHex(s, i + 1)

\* step 8: /%[sdifoxX]/g -> 'PLACEHOLDER'
RECURSIVE ReplacePlaceholders(_, _)
ReplacePlaceholders(s, i) ==
    IF i > Len(s) THEN << >>
    ELSE IF /\ s[i] = "%"
            /\ i + 1 <= Len(s)
            /\ s[i + 1] \in {"s","d","i","f","o","x","X"}
         THEN PlaceholderToken \o ReplacePlaceholders(s, i + 2)
         ELSE <<s[i]>> \o ReplacePlaceholders(s, i + 1)

\* step 10, first replacement: /\b\d{4,}\b/g -> 'NUM'
RECURSIVE ReplaceLongNumbers(_, _)
ReplaceLongNumbers(s, i) ==
    IF i > Len(s) THEN << >>
    ELSE LET run == RunLength(s, i, Digits)
         IN  IF run >= 4 /\ WordBoundary(s, i) /\ WordBoundary(s, i + run)
             THEN NumToken \o ReplaceLongNumbers(s, i + run)
             ELSE <<s[i]>> \o ReplaceLongNumbers(s, i + 1)

\* the codes the second replacement of step 10 keeps
KeptNumbers ==
    { <<"2","0","0">>, <<"4","0","4">>, <<"5","0","0">>, <<"4","0","3">>,
      <<"4","0","1">>, <<"5","0","3">>, <<"4","0","0">>, <<"0">>, <<"1">>,
      <<"-","1">> }

\* step 10, second replacement: /\b\d{1,3}\b/g -> 'NUM' unless kept
RECURSIVE ReplaceShortNumbers(_, _)
ReplaceShortNumbers(s, i) ==
    IF i > Len(s) THEN << >>
    ELSE LET run == RunLength(s, i, Digits)
         IN  IF /\ run >= 1
                /\ run <= 3
                /\ WordBoundary(s, i)
                /\ WordBoundary(s, i + run)
             THEN (IF SubSeq(s, i, i + run - 1) \in KeptNumbers
                   THEN SubSeq(s, i, i + run - 1)
                   ELSE NumToken)
                  \o ReplaceShortNumbers(s, i + run)
             ELSE <<s[i]>> \o ReplaceShortNumbers(s, i + 1)

\* step 11, first half: /([a-z])([A-Z])/g -> '$1 $2'
RECURSIVE SplitCamelCase(_, _)
SplitCamelCase(s, i) ==
    IF i > Len(s) THEN << >>
    ELSE IF /\ s[i] \in Range(Lowers)
            /\ i + 1 <= Len(s)
            /\ s[i + 1] \in Range(Uppers)
         THEN <<s[i], " ", s[i + 1]>> \o SplitCamelCase(s, i + 2)
         ELSE <<s[i]>> \o SplitCamelCase(s, i + 1)

ToLowerChar(c) ==
    IF \E k \in 1..Len(Uppers) : Uppers[k] = c
    THEN Lowers[CHOOSE k \in 1..Len(Uppers) : Uppers[k] = c]
    ELSE c

\* step 11, second half: text.toLowerCase()
TextToLowerCase(s) == [k \in 1..Len(s) |-> ToLowerChar(s[k])]

\* step 12, first half: /\s+/g -> ' '
RECURSIVE CollapseWhitespace(_, _)
CollapseWhitespace(s, i) ==
    IF i > Len(s) THEN << >>
    ELSE IF s[i] = " "
         THEN <<" ">> \o CollapseWhitespace(s, i + RunLength(s, i, {" "}))
         ELSE <<s[i]>> \o CollapseWhitespace(s, i + 1)

\* step 12, second half: .trim()
TrimText(s) ==
    LET lead  == RunLength(s, 1, {" "})
        inner == SubSeq(s, lead + 1, Len(s))
        last  == IF \E k \in 1..Len(inner) : inner[k] # " "
                 THEN CHOOSE k \in 1..Len(inner) :
                          /\ inner[k] # " "
                          /\ \A j \in (k + 1)..Len(inner) : inner[j] = " "
                 ELSE 0
    IN  SubSeq(inner, 1, last)

ModerateNormalization(s) ==
    LET hex    == ReplaceHex(s, 1)
        holder == ReplacePlaceholders(hex, 1)
        long   == ReplaceLongNumbers(holder, 1)
        short  == ReplaceShortNumbers(long, 1)
        camel  == SplitCamelCase(short, 1)
        lower  == TextToLowerCase(camel)
    IN  TrimText(CollapseWhitespace(lower, 1))

\* the characters of the texts the normalization is applied to
LogAlphabet == {"0", "1", "7", "x", "X", "F", "a", "B", " ", "%", "S"}

MaxTextLen == 3

LogTexts == UNION { [1..n -> LogAlphabet] : n \in 0..MaxTextLen }

\* normalizeLogText(log, 'moderate'), applied to a text and then to its result
NormalizeCall(log) ==
    [op |-> "normalizeLogText", log |-> log, passes |-> 0,
     once |-> << >>, twice |-> << >>]

InitNormalize ==
    /\ unreadable = {}
    /\ securityLog = << >>
    /\ guardCall = IdleGuard
    /\ walkCall = IdleWalk
    /\ search = IdleSearch
    /\ trace = IdleTrace
    /\ \E log \in LogTexts : call = NormalizeCall(log)

NormalizeLogTextOnce ==
    /\ call.op = "normalizeLogText"
    /\ call.passes = 0
    /\ call' = [call EXCEPT !.passes = 1,
                            !.once = ModerateNormalization(call.log)]
    /\ UNCHANGED <<unreadable, securityLog, guardCall, walkCall, search, trace>>

NormalizeLogTextAgain ==
    /\ call.op = "normalizeLogText"
    /\ call.passes = 1
    /\ call' = [call EXCEPT !.passes = 2,
                            !.twice = ModerateNormalization(call.once)]
    /\ UNCHANGED <<unreadable, securityLog, guardCall, walkCall, search, trace>>

NextNormalize == NormalizeLogTextOnce \/ NormalizeLogTextAgain

SpecNormalize == InitNormalize /\ [][NextNormalize]_vars

\* C11: moderate normalization is idempotent: normalizing an already
\* normalized text at level 'moderate' gives that text back.
C11_ModerateIdempotent ==
    (call.op = "normalizeLogText" /\ call.passes = 2) => call.twice = call.once

\* C14: a search that is given no search root at all fails with an error that
\* reaches the caller, before any directory is read; every other failure
\* leaves the search to return normally.
C14_NoRootsIsHardError ==
    /\ (search.engine # "none" /\ search.searchPaths = << >>)
          => (search.pc # "done" /\ search.allFiles = << >>)
    /\ (search.engine # "none" /\ search.searchPaths # << >>)
          => search.pc # "threw"

\* ---------------------------------------------------------------------------
\* The security log at its capacity
\* ---------------------------------------------------------------------------

\* inputs of earlier validatePath calls, each of which logs one violation
PastInputs ==
    << AbsPath(<<"etc", "passwd">>), RelPath(<<"src", "..", "a.java">>), Blocked >>

\* the log after n such calls, made in turn
PastViolations(n) == [i \in 1..n |-> ValidatePath(PastInputs[(i % 3) + 1]).viols[1]]

\* the validator has been in use: the log is one short of its capacity, or full
InitLog ==
    /\ unreadable = {}
    /\ securityLog \in {PastViolations(SecurityLogCap - 1), PastViolations(SecurityLogCap)}
    /\ guardCall = IdleGuard
    /\ walkCall = IdleWalk
    /\ search = IdleSearch
    /\ trace = IdleTrace
    /\ call = IdleCall

SpecLog == InitLog /\ [][NextGuard]_vars

\* the last n entries of a log (slice(-n))
LastEntries(log, n) ==
    IF Len(log) <= n THEN log ELSE SubSeq(log, Len(log) - n + 1, Len(log))

\* C20: the security log never holds more than 1000 entries, and after every
\* validatePath call it holds the most recent violations, the ones of the call
\* last, in the order in which they occurred: the oldest ones are dropped.
C20_BoundedMostRecent ==
    /\ [](Len(securityLog) <= SecurityLogCap)
    /\ [][securityLog' = LastEntries(securityLog \o ValidatePath(guardCall'.path).viols,
                                     SecurityLogCap)]_vars

\* the log was full, a call logged one violation: the oldest entry is gone,
\* the others moved up by one and the new one is the last
C20_Witness ==
    /\ guardCall.n = 1
    /\ ~guardCall.valid
    /\ Len(securityLog) = SecurityLogCap
    /\ Len(ValidatePath(guardCall.path).viols) = 1
    /\ securityLog[SecurityLogCap] = ValidatePath(guardCall.path).viols[1]
    /\ SubSeq(securityLog, 1, SecurityLogCap - 1)
          = SubSeq(PastViolations(SecurityLogCap), 2, SecurityLogCap)
    /\ securityLog[1] # PastViolations(SecurityLogCap)[1]

\* ---------------------------------------------------------------------------
\* Directory read failures during the walk
\* ---------------------------------------------------------------------------

\* the walk of the search has run: smartSearch after its loop over the search
\* paths, searchInFiles of the REST engine after its own
SearchWalked == search.engine # "none" /\ search.pc \notin {"idle", "gather", "threw"}

\* the directories the environment fails to read
UnreadableDirs == unreadable \cap DirPaths

UnderUnreadable(p) == \E d \in UnreadableDirs : IsPrefix(d, p)

\* the files the same walk enumerates when every directory can be read
ReadableWalk ==
    IF search.engine = "smart"
    THEN GatherAll(search.searchPaths, search.fileTypes, {}).files
    ELSE RestGather(search.searchPaths, {}).files

\* the unreadable directory d lies below a search path the walk enters
WalkReaches(d) ==
    \E i \in 1..Len(search.searchPaths) :
        /\ ValidatePath(search.searchPaths[i]).valid
        /\ Kind(Resolve(search.searchPaths[i])) = "dir"
        /\ IsPrefix(Resolve(search.searchPaths[i]), d)
        /\ Resolve(search.searchPaths[i]) \notin UnreadableDirs

\* C17: a directory that cannot be read during a walk is recorded in the
\* engine's error list, and every file outside it, in its sibling directories
\* and in the other search roots, is still enumerated, in the same order.
C17_ReadFailureRecordedWalkGoesOn ==
    SearchWalked =>
        /\ \A d \in UnreadableDirs :
              WalkReaches(d) =>
                  [msg |-> "Cannot read directory", path |-> d] \in Range(search.errors)
        /\ search.allFiles = SelectSeq(ReadableWalk, LAMBDA f : ~UnderUnreadable(f.path))

\* a smartSearch over two roots met an unreadable directory in the first one,
\* recorded it, and enumerated a later sibling of it and a file of the other root
C17_Witness ==
    /\ SearchWalked
    /\ search.engine = "smart"
    /\ search.searchPaths = <<Proj, Other>>
    /\ <<"srv", "proj", "src", "deep">> \in unreadable
    /\ [msg |-> "Cannot read directory", path |-> <<"srv", "proj", "src", "deep">>]
          \in Range(search.errors)
    /\ \E i, j \in 1..Len(search.allFiles) :
          /\ search.allFiles[i].path = <<"srv", "proj", "src", "shadow.js">>
          /\ search.allFiles[j].path = <<"srv", "other", "t.js">>
    /\ Len(search.allFiles) < Len(ReadableWalk)

\* ---------------------------------------------------------------------------
\* Errors on single files during the batches
\* ---------------------------------------------------------------------------

\* smartSearchInFile fails on the file: the Path Guard rejects it, it is gone,
\* or it cannot be read
FileFails(p) ==
    \/ ~ValidatePath(AbsPath(p)).valid
    \/ Kind(p) = "none"
    \/ p \in unreadable

\* the matches of the file when every file can be read
MatchesUndisturbed(file) ==
    IF FileFails(file.path) THEN << >>
    ELSE SearchFunction(file, search.query, search.caseSensitive, {}).matches

SmartBatches == search.engine = "smart" /\ search.pc \in {"batch", "rank", "done"}

\* C18: a file that fails (unreadable, or rejected by the Path Guard)
\* contributes no match and one logged error; the matches of every other file
\* of its batch and of the later batches are what they are without the
\* failure, and the search does not throw.
C18_FileErrorIsolated ==
    /\ SmartBatches =>
          /\ search.results =
                Flatten([i \in 1..Len(search.searched) |->
                            MatchesUndisturbed(search.filesToProcess[i])])
          /\ \A i \in 1..Len(search.searched) :
                FileFails(search.searched[i]) =>
                    \E e \in Range(search.errors) :
                        /\ e.path = search.searched[i]
                        /\ e.msg \in {"Security", "Cannot read file",
                                      "Error in smart search"}
    /\ search.engine = "smart" => search.pc # "threw"

\* a finished smartSearch whose first batch held a file that matched and a
\* file that could not be read, and whose later batch still contributed
C18_Witness ==
    /\ search.engine = "smart"
    /\ search.pc = "done"
    /\ <<"srv", "proj", "a.java">> \in unreadable
    /\ [msg |-> "Cannot read file", path |-> <<"srv", "proj", "a.java">>]
          \in Range(search.errors)
    /\ \E i, j \in 1..Len(search.results) :
          /\ search.results[i].fullPath = <<"srv", "proj", "Gen", "g.java">>
          /\ search.results[j].fullPath = <<"srv", "proj", "src", "b.js">>
    /\ \A i \in 1..Len(search.results) :
          search.results[i].fullPath # <<"srv", "proj", "a.java">>
    /\ search.returned # << >>

\* ---------------------------------------------------------------------------
\* smartSearchInFile, one strategy at a time
\* ---------------------------------------------------------------------------

\* the maxMatches options of the model: smartSearch passes MaxMatchesPerFile
MaxMatchesCeiling == 4

InFilePaths ==
    { <<"srv", "proj", "a.java">>, <<"srv", "proj", "Gen", "g.java">>,
      <<"srv", "proj", "src", "b.js">>, <<"srv", "proj", "src", "shadow.js">>,
      <<"srv", "proj", "src", "deep", "c.md">>,
      <<"srv", "proj", "src", "deep", "deeper", "d.py">>,
      <<"srv", "other", "a.java">>, <<"srv", "other", "t.js">>,
      <<"srv", "scn", "real.js">>, <<"srv", "cfg", "Loader.java">>,
      <<"srv", "db", "plan.sql">>, <<"srv", "proj", "gone.js">> }

InFileCall(filePath, q, cs, maxMatches) ==
    [op |-> "inFile", pc |-> "open", filePath |-> filePath, query |-> q,
     caseSensitive |-> cs, maxMatches |-> maxMatches, searchPatterns |-> << >>,
     tried |-> << >>, results |-> << >>, error |-> << >>, returned |-> << >>]

InitInFile ==
    /\ unreadable \in SUBSET {<<"srv", "proj", "a.java">>}
    /\ securityLog = << >>
    /\ guardCall = IdleGuard
    /\ walkCall = IdleWalk
    /\ search = IdleSearch
    /\ trace = IdleTrace
    /\ \E filePath \in InFilePaths, q \in Queries, cs \in BOOLEAN,
          maxMatches \in 1..MaxMatchesCeiling :
            call = InFileCall(filePath, q, cs, maxMatches)

\* the file is not searched: the Path Guard rejects it, stat or readFile
\* fails, or it is larger than maxFileSize
OpenOutcome(c, r) ==
    IF r.processed = 0
    THEN [c EXCEPT !.pc = "done", !.error = r.errors]
    ELSE [c EXCEPT !.pc = "strategies",
                   !.searchPatterns =
                      SelectSearchPatterns(GetFileType(c.filePath[Len(c.filePath)]),
                                           c.query)]

\* validatePath, stat, readFile and selectSearchPatterns
OpenFile ==
    /\ call.op = "inFile"
    /\ call.pc = "open"
    /\ LET r == SearchGuardedFile(ValidatePath(AbsPath(call.filePath)), call.filePath,
                                  call.query, call.caseSensitive, 0, unreadable)
       IN  /\ call' = OpenOutcome(call, r)
           /\ securityLog' = LogAll(securityLog, r.viols)
    /\ UNCHANGED <<unreadable, guardCall, walkCall, search, trace>>

Tried(pat, before, found) ==
    [type |-> pat.type, weight |-> pat.weight, before |-> before, found |-> found]

\* one pass of the loop over searchPatterns: findMatches and the push
TryStrategy ==
    /\ call.op = "inFile"
    /\ call.pc = "strategies"
    /\ call.searchPatterns # << >>
    /\ Len(call.results) < call.maxMatches
    /\ LET pat == Head(call.searchPatterns)
           matches == FindMatches(Content(call.filePath), pat, call.query,
                                  call.caseSensitive)
       IN  call' = [call EXCEPT
                      !.searchPatterns = Tail(@),
                      !.tried = Append(@, Tried(pat, Len(call.results), Len(matches))),
                      !.results = @ \o matches]
    /\ UNCHANGED <<unreadable, securityLog, guardCall, walkCall, search, trace>>

\* the loop ends (no strategy left, or the break); deduplicateAndScore and
\* the slice
ReturnMatches ==
    /\ call.op = "inFile"
    /\ call.pc = "strategies"
    /\ call.searchPatterns = << >> \/ Len(call.results) >= call.maxMatches
    /\ call' = [call EXCEPT
                  !.pc = "done",
                  !.returned = Take(DeduplicateAndScore(call.results), call.maxMatches)]
    /\ UNCHANGED <<unreadable, securityLog, guardCall, walkCall, search, trace>>

NextInFile == OpenFile \/ TryStrategy \/ ReturnMatches

SpecInFile == InitInFile /\ [][NextInFile]_vars

\* the strategies selected for the file whose pattern matches line number i
MatchingStrategies(c, i) ==
    LET pats == SelectSearchPatterns(GetFileType(c.filePath[Len(c.filePath)]), c.query)
    IN  {pats[k] : k \in {k \in 1..Len(pats) :
            MatchCount(pats[k].type, c.query, Content(c.filePath)[i], i,
                       c.caseSensitive) > 0}}

\* C19: in smartSearchInFile the strategies are tried in descending weight
\* order, each only while fewer than maxMatches results have accumulated; the
\* call returns at most maxMatches matches, on pairwise distinct lines, and
\* each returned line carries the highest weight of the strategies matching it.
C19_WeightOrderAndCeiling ==
    call.op = "inFile" =>
        /\ \A i, j \in 1..Len(call.tried) :
              i < j => call.tried[i].weight >= call.tried[j].weight
        /\ \A i \in 1..Len(call.tried) : call.tried[i].before < call.maxMatches
        /\ Len(call.returned) <= call.maxMatches
        /\ \A i, j \in 1..Len(call.returned) :
              i # j => call.returned[i].line # call.returned[j].line
        /\ \A i \in 1..Len(call.returned) :
              \A s \in MatchingStrategies(call, call.returned[i].line) :
                  call.returned[i].relevanceScore >= s.weight

\* a call that stopped at the ceiling before every strategy was tried, more
\* results accumulated than returned, on a line that several strategies match
C19_Witness ==
    /\ call.op = "inFile"
    /\ call.pc = "done"
    /\ call.searchPatterns # << >>
    /\ Len(call.tried) >= 1
    /\ Len(call.results) > call.maxMatches
    /\ Len(call.returned) = call.maxMatches
    /\ \E i \in 1..Len(call.returned) :
          Cardinality(MatchingStrategies(call, call.returned[i].line)) >= 2

\* ---------------------------------------------------------------------------
\* Two runs of smartSearch on the same arguments and the same tree.  The
\* searches of the files of one batch run concurrently (processFilesInBatches
\* starts them all and awaits Promise.all): they settle in any order.
\* ---------------------------------------------------------------------------

\* the results of a batch taken in the order in which the searches settled
InSettleOrder(rs, order) == [k \in 1..Len(order) |-> rs[order[k]]]

\* await Promise.all(batchPromises): the results in the order of the promises,
\* whatever the order in which they settled
PromiseAll(rs, order) == rs

RunQueries == {"Foo", "zzz"}

RunPathLists == { <<Other, Proj>>, <<Proj>>, <<Scn>> }

RunUnreadable == { <<"srv", "proj", "Gen">>, <<"srv", "proj", "a.java">> }

\* the start of a run: the loop over the search paths and the early return
RunStarted(c, g) ==
    IF g.threw \/ FilterFilesByType(g.files, c.fileTypes) = << >>
    THEN [c EXCEPT !.pc = "return", !.run = @ + 1, !.files = << >>,
                   !.nextBatch = 0, !.settled = << >>, !.results = << >>]
    ELSE [c EXCEPT !.pc = "batch", !.run = @ + 1,
                   !.files = Take(g.files, MaxFilesToProcess),
                   !.nextBatch = 1, !.settled = << >>, !.results = << >>]

RunCall(q, paths, ft, mr) ==
    [op |-> "runs", pc |-> "start", run |-> 0, query |-> q, searchPaths |-> paths,
     fileTypes |-> ft, maxResults |-> mr, files |-> << >>, nextBatch |-> 0,
     settled |-> << >>, orders |-> << << >>, << >> >>, results |-> << >>,
     returned |-> << >>]

InitRuns ==
    /\ unreadable \in SUBSET RunUnreadable
    /\ securityLog = << >>
    /\ guardCall = IdleGuard
    /\ walkCall = IdleWalk
    /\ search = IdleSearch
    /\ trace = IdleTrace
    /\ \E q \in RunQueries, paths \in RunPathLists, ft \in FileTypeChoices,
          mr \in {1, EngineMaxResults} :
            call = RunCall(q, paths, ft, mr)

\* smartSearch is called: the first run, and the second once the first returned
StartRun ==
    /\ call.op = "runs"
    /\ call.pc = "start"
    /\ call.run < 2
    /\ LET g == GatherAll(call.searchPaths, call.fileTypes, unreadable)
       IN  /\ call' = RunStarted(call, g)
           /\ securityLog' = LogAll(securityLog, g.viols)
    /\ UNCHANGED <<unreadable, guardCall, walkCall, search, trace>>

RunBatch == BatchOf(call.files, call.nextBatch)

\* the search of one file of the batch settles
SettleFile(i) ==
    /\ call.op = "runs"
    /\ call.pc = "batch"
    /\ call.nextBatch <= NumBatches(call.files)
    /\ i \in 1..Len(RunBatch)
    /\ i \notin Range(call.settled)
    /\ call' = [call EXCEPT !.settled = Append(@, i)]
    /\ UNCHANGED <<unreadable, securityLog, guardCall, walkCall, search, trace>>

RunAfterBatch(c, r) ==
    [c EXCEPT !.results = @ \o r.matches,
              !.settled = << >>,
              !.orders[c.run] = Append(@, c.settled),
              !.nextBatch = @ + 1,
              !.pc = IF StopAfterBatch(Len(c.results) + Len(r.matches), c.maxResults)
                     THEN "rank" ELSE @]

\* Promise.all resolves: the results of the batch are joined
JoinSettled ==
    /\ call.op = "runs"
    /\ call.pc = "batch"
    /\ call.nextBatch <= NumBatches(call.files)
    /\ Len(call.settled) = Len(RunBatch)
    /\ LET r == JoinBatch(PromiseAll(
                    [k \in 1..Len(RunBatch) |->
                        SearchFunction(RunBatch[k], call.query, FALSE, unreadable)],
                    call.settled))
       IN  /\ call' = RunAfterBatch(call, r)
           /\ securityLog' = LogAll(securityLog, r.viols)
    /\ UNCHANGED <<unreadable, guardCall, walkCall, search, trace>>

RunBatchesDone ==
    /\ call.op = "runs"
    /\ call.pc = "batch"
    /\ call.nextBatch > NumBatches(call.files)
    /\ call' = [call EXCEPT !.pc = "rank"]
    /\ UNCHANGED <<unreadable, securityLog, guardCall, walkCall, search, trace>>

\* the final sort and slice, and the return of the run
ReturnRun ==
    /\ call.op = "runs"
    /\ call.pc \in {"rank", "return"}
    /\ call' = [call EXCEPT
                  !.pc = IF call.run < 2 THEN "start" ELSE "done",
                  !.returned = Append(@, IF call.pc = "return" THEN << >>
                                         ELSE RankAndLimit(call.results,
                                                           call.maxResults))]
    /\ UNCHANGED <<unreadable, securityLog, guardCall, walkCall, search, trace>>

NextRuns ==
    \/ StartRun
    \/ \E i \in 1..BatchSize : SettleFile(i)
    \/ JoinSettled
    \/ RunBatchesDone
    \/ ReturnRun

SpecRuns == InitRuns /\ [][NextRuns]_vars

\* C15: two runs of smartSearch with the same query, roots and options on an
\* unchanged tree return the same results in the same order.
C15_SameResultsSameOrder ==
    (call.op = "runs" /\ call.pc = "done") => call.returned[1] = call.returned[2]

\* two runs whose files settled in different orders returned the same list of
\* matches, from two files of the same relative path
C15_Witness ==
    /\ call.op = "runs"
    /\ call.pc = "done"
    /\ call.orders[1] # call.orders[2]
    /\ call.returned[1] = call.returned[2]
    /\ \E i, j \in 1..Len(call.returned[1]) :
          /\ call.returned[1][i].file = call.returned[1][j].file
          /\ call.returned[1][i].fullPath # call.returned[1][j].fullPath

\* ---------------------------------------------------------------------------
\* smartSearch with a fileTypes option: which files of the roots are searched
\* ---------------------------------------------------------------------------

\* the tags of getFileType's taxonomy, and 'all'
TypeTags ==
    {"all", "java", "javascript", "python", "cpp", "web", "config", "build",
     "sql", "shell", "docs"}

\* the fileTypes options of the model: one tag or two
TypeLists ==
    {<<t>> : t \in TypeTags} \cup {<<t, u>> : t, u \in TypeTags}

TypedPathLists == { <<Db>>, <<Proj>>, <<Other, Db>> }

TypedCall(q, paths, ft) ==
    [op |-> "types", pc |-> "start", query |-> q, searchPaths |-> paths,
     fileTypes |-> ft, files |-> << >>, nextBatch |-> 0, results |-> 0,
     stoppedEarly |-> FALSE, searched |-> << >>]

InitTypes ==
    /\ unreadable = {}
    /\ securityLog = << >>
    /\ guardCall = IdleGuard
    /\ walkCall = IdleWalk
    /\ search = IdleSearch
    /\ trace = IdleTrace
    /\ \E q \in {"Foo", "zzz"}, paths \in TypedPathLists, ft \in TypeLists :
            call = TypedCall(q, paths, ft)

TypedGathered(c, g) ==
    IF g.threw \/ FilterFilesByType(g.files, c.fileTypes) = << >>
    THEN [c EXCEPT !.pc = "done"]
    ELSE [c EXCEPT !.pc = "batch", !.nextBatch = 1,
                   !.files = Take(FilterFilesByType(g.files, c.fileTypes),
                                  MaxFilesToProcess)]

\* the loop over the search paths (getAllFiles with shouldProcessFile), then
\* filterFilesByType and the cut at maxFiles
GatherTyped ==
    /\ call.op = "types"
    /\ call.pc = "start"
    /\ LET g == GatherAll(call.searchPaths, call.fileTypes, unreadable)
       IN  /\ call' = TypedGathered(call, g)
           /\ securityLog' = LogAll(securityLog, g.viols)
    /\ UNCHANGED <<unreadable, guardCall, walkCall, search, trace>>

TypedAfterBatch(c, batch, r) ==
    [c EXCEPT !.searched = @ \o [k \in 1..Len(batch) |-> batch[k].path],
              !.results = @ + Len(r.matches),
              !.nextBatch = @ + 1,
              !.stoppedEarly = /\ StopAfterBatch(c.results + Len(r.matches),
                                                 EngineMaxResults)
                               /\ c.nextBatch < NumBatches(c.files),
              !.pc = IF StopAfterBatch(c.results + Len(r.matches), EngineMaxResults)
                        \/ c.nextBatch >= NumBatches(c.files)
                     THEN "done" ELSE @]

\* one batch of processFilesInBatches: every file of the batch is searched
SearchTypedBatch ==
    /\ call.op = "types"
    /\ call.pc = "batch"
    /\ LET batch == BatchOf(call.files, call.nextBatch)
           r == JoinBatch([k \in 1..Len(batch) |->
                              SearchFunction(batch[k], call.query, FALSE, unreadable)])
       IN  /\ call' = TypedAfterBatch(call, batch, r)
           /\ securityLog' = LogAll(securityLog, r.viols)
    /\ UNCHANGED <<unreadable, guardCall, walkCall, search, trace>>

NextTypes == GatherTyped \/ SearchTypedBatch

SpecTypes == InitTypes /\ [][NextTypes]_vars

\* the files of the roots that pass the size and binary filters
Discovered(paths) == GatherAll(paths, <<"all">>, {}).files

\* the tag of a file is requested; config and build are one tag of the taxonomy
Requested(fileType, fileTypes) ==
    \/ "all" \in Range(fileTypes)
    \/ fileType \in Range(fileTypes)
    \/ fileType \in {"config", "build"} /\ Range(fileTypes) \cap {"config", "build"} # {}

\* C16: a discovered file that passes the size and binary filters is searched
\* if and only if its type tag is requested (or 'all' is), for every tag of the
\* taxonomy.
C16_TagFilter ==
    (call.op = "types" /\ call.pc = "done" /\ ~call.stoppedEarly) =>
        \A i \in 1..Len(Discovered(call.searchPaths)) :
            LET f == Discovered(call.searchPaths)[i] IN
            (f.path \in Range(call.searched)) <=> Requested(f.fileType, call.fileTypes)

\* ---------------------------------------------------------------------------
\* Dependency Resolver: EnhancedTraversalAnalyzer (analyzeWithTraversal,
\* extractReferences, performDeepTraversal and the trace* methods)
\* ---------------------------------------------------------------------------

MaxTraversalDepth == 10

ResolverMaxResults == 10
ConstantMaxResults == 5

Cfg == AbsPath(<<"srv", "cfg">>)

\* the snippets analysed
ConfigSnippet == "if (!ConfigStore.colPlanList.contains(x))"
SqlSnippet    == "SELECT * FROM PLAN_TABLE"
PlainSnippet  == "zzz"
Snippets      == {ConfigSnippet, SqlSnippet, PlainSnippet}

\* extractReferences(snippet): each Set in the order of its insertions
ExtractReferences(snippet) ==
    CASE snippet = ConfigSnippet ->
            [variables      |-> <<"if", "colPlanList", "contains", "x">>,
             constants      |-> << >>,
             configurations |-> <<"ConfigStore.colPlanList">>,
             tables         |-> << >>]
      [] snippet = SqlSnippet ->
            [variables      |-> << >>,
             constants      |-> <<"SELECT", "FROM", "PLAN_TABLE">>,
             configurations |-> << >>,
             tables         |-> <<"PLAN_TABLE">>]
      [] OTHER ->
            [variables      |-> <<snippet>>,
             constants      |-> << >>,
             configurations |-> << >>,
             tables         |-> << >>]

\* the lines lineNumber - contextLines .. lineNumber + contextLines of the file
MatchContext(r) ==
    LET lines == Content(r.fullPath)
        first == IF r.line - ContextLines < 1 THEN 1 ELSE r.line - ContextLines
        last  == IF r.line + ContextLines > Len(lines) THEN Len(lines)
                 ELSE r.line + ContextLines
    IN  SubSeq(lines, first, last)

\* extractSQLFromContext(context): the first quoted text that holds SELECT,
\* INSERT, UPDATE or DELETE, << >> for null
ExtractSQLFromContext(context) ==
    IF "popquery" \in Range(context) THEN <<"SELECT * FROM PLAN_TABLE">> ELSE << >>

Source(r) == [file |-> r.file, line |-> r.line]

Sources(results) == [i \in 1..Len(results) |-> Source(results[i])]

\* searchEngine.smartSearch(pattern, [searchDir], {fileTypes, maxResults}).results
Found(pattern, searchDir, fileTypes, maxResults, unread) ==
    SmartSearch(pattern, <<searchDir>>, fileTypes, maxResults, MaxFilesToProcess,
                FALSE, unread).results

VariablePatterns(variable) ==
    << variable \o "\\s*=\\s*", variable \o "\\.add", variable \o "\\.put",
       "populate.*" \o variable, "load.*" \o variable, "init.*" \o variable,
       "set" \o variable, variable \o "\\s*=.*query", variable \o "\\s*=.*SELECT" >>

VariableDependency(variable, pattern, results) ==
    IF results = << >> THEN << >>
    ELSE <<[type |-> "variable_source", name |-> variable, pattern |-> pattern,
            sources |-> Sources(results)]>>

\* traceVariableSource: the dependencies it pushes
TraceVariableSource(variable, searchDir, unread) ==
    Flatten([i \in 1..Len(VariablePatterns(variable)) |->
        VariableDependency(variable, VariablePatterns(variable)[i],
            Found(VariablePatterns(variable)[i], searchDir, <<"java", "javascript">>,
                  ResolverMaxResults, unread))])

ConstantPatterns(constant) ==
    << "static.*final.*" \o constant, "const.*" \o constant,
       "public.*static.*" \o constant, constant \o "\\s*=\\s*[\"']",
       constant \o "\\s*=\\s*\\d+", "enum.*\\{[^}]*" \o constant >>

ConstantDependency(constant, pattern, results) ==
    IF results = << >> THEN << >>
    ELSE <<[type |-> "constant_definition", name |-> constant, pattern |-> pattern,
            sources |-> Sources(results)]>>

\* traceConstantDefinition
TraceConstantDefinition(constant, searchDir, unread) ==
    Flatten([i \in 1..Len(ConstantPatterns(constant)) |->
        ConstantDependency(constant, ConstantPatterns(constant)[i],
            Found(ConstantPatterns(constant)[i], searchDir,
                  <<"java", "javascript", "config">>, ConstantMaxResults, unread))])

\* config.replace('ConfigStore.', '')
ConfigName(config) ==
    IF config = "ConfigStore.colPlanList" THEN "colPlanList" ELSE config

ConfigurationPatterns(configName) ==
    << configName \o ".*populate", configName \o ".*put", configName \o ".*add",
       "SELECT.*INTO.*" \o configName, configName \o ".*=.*query",
       "load.*" \o configName, "init.*" \o configName >>

\* one configuration_source dependency: pushed for a result in whose context
\* a SQL text is found
ConfigurationDependency(config, r, sql) ==
    IF sql = << >> THEN << >>
    ELSE <<[type |-> "configuration_source", name |-> config, sqlQuery |-> sql[1],
            source |-> Source(r)]>>

ConfigurationDependencies(config, results) ==
    Flatten([k \in 1..Len(results) |->
        ConfigurationDependency(config, results[k],
                                ExtractSQLFromContext(MatchContext(results[k])))])

PropertyDependency(config, results) ==
    IF results = << >> THEN << >>
    ELSE <<[type |-> "property_file", name |-> config, sources |-> Sources(results)]>>

\* traceConfigurationSource
TraceConfigurationSource(config, searchDir, unread) ==
    Flatten([i \in 1..Len(ConfigurationPatterns(ConfigName(config))) |->
        ConfigurationDependencies(config,
            Found(ConfigurationPatterns(ConfigName(config))[i], searchDir,
                  <<"java", "javascript">>, ResolverMaxResults, unread))])
    \o PropertyDependency(config,
            Found(ConfigName(config), searchDir, <<"config">>, ConstantMaxResults,
                  unread))

SchemaPatterns(table) ==
    << "CREATE\\s+TABLE\\s+" \o table, "ALTER\\s+TABLE\\s+" \o table,
       table \o ".*PRIMARY\\s+KEY", "FOREIGN\\s+KEY.*" \o table >>

TableQueryPatterns(table) ==
    << "SELECT.*FROM\\s+" \o table, "INSERT\\s+INTO\\s+" \o table,
       "UPDATE\\s+" \o table, "DELETE\\s+FROM\\s+" \o table >>

SchemaDependency(table, pattern, results) ==
    IF results = << >> THEN << >>
    ELSE <<[type |-> "database_schema", table |-> table, pattern |-> pattern,
            sources |-> Sources(results)]>>

Query(r) ==
    [file |-> r.file, line |-> r.line,
     query |-> ExtractSQLFromContext(MatchContext(r))]

QueryDependency(table, pattern, results) ==
    IF results = << >> THEN << >>
    ELSE <<[type |-> "database_query", table |-> table, pattern |-> pattern,
            queries |-> [i \in 1..Len(results) |-> Query(results[i])]]>>

\* traceDatabaseSchema
TraceDatabaseSchema(table, searchDir, unread) ==
    Flatten([i \in 1..Len(SchemaPatterns(table)) |->
        SchemaDependency(table, SchemaPatterns(table)[i],
            Found(SchemaPatterns(table)[i], searchDir, <<"sql", "java", "docs">>,
                  ResolverMaxResults, unread))])
    \o Flatten([i \in 1..Len(TableQueryPatterns(table)) |->
        QueryDependency(table, TableQueryPatterns(table)[i],
            Found(TableQueryPatterns(table)[i], searchDir, <<"java", "javascript">>,
                  ResolverMaxResults, unread))])

\* the guard of performDeepTraversal with no test at all
AlwaysVisits(depth, visitedFiles, currentFile) == TRUE

\* performDeepTraversal goes on: the depth is below the limit and the file
\* has not been visited
Visits(depth, visitedFiles, currentFile) ==
    ~(depth >= MaxTraversalDepth \/ currentFile \in visitedFiles)

\* analysis.dataSourceAnalysis.configurations of analyzeDataSources.  No
\* snippet of the model holds an .add/.put call, a jdbcTemplate call or an
\* environment variable: arrays, queries and externalSources stay empty.
ConfigurationAccess(config, results) ==
    [name |-> config, populationLogic |-> Sources(results)]

AnalyzeDataSources(snippet, searchDir, unread) ==
    [i \in 1..Len(ExtractReferences(snippet).configurations) |->
        ConfigurationAccess(ExtractReferences(snippet).configurations[i],
            Found(ConfigName(ExtractReferences(snippet).configurations[i]) \o ".*populate",
                  searchDir, <<"java">>, ConstantMaxResults, unread))]

\* the calls made on one analyzer
MaxTraversalCalls == 3

SnippetFiles == {"A.java", "B.java"}

\* searchDirectory: << >> when none is given
SearchDirectories == {<<Cfg>>, <<Scn>>, <<Db>>, << >>}

TraversalDepths == {0, MaxTraversalDepth - 1, MaxTraversalDepth}

IdleAnalyzer ==
    [op |-> "analyzer", pc |-> "idle", calls |-> 0, entered |-> "none",
     snippet |-> "", file |-> "", searchDir |-> << >>, depth |-> 0,
     visitedFiles |-> {}, traversalPath |-> << >>, dependencies |-> << >>,
     configurations |-> << >>]

InitResolve ==
    /\ unreadable \in SUBSET {<<"srv", "cfg", "Loader.java">>}
    /\ securityLog = << >>
    /\ guardCall = IdleGuard
    /\ walkCall = IdleWalk
    /\ search = IdleSearch
    /\ trace = IdleTrace
    /\ call = IdleAnalyzer

\* the first lines of analyzeWithTraversal: the sets are cleared and the
\* analysis object is new
FreshAnalysis(a, snippet, file, searchDirectory) ==
    [a EXCEPT !.pc = IF searchDirectory = << >> THEN "dataSources" ELSE "enter",
              !.calls = @ + 1, !.entered = "analyze", !.snippet = snippet,
              !.file = file, !.searchDir = searchDirectory, !.depth = 0,
              !.visitedFiles = {}, !.traversalPath = << >>,
              !.dependencies = << >>, !.configurations = << >>]

AnalyzeWithTraversal(snippet, file, searchDirectory) ==
    /\ call.op = "analyzer"
    /\ call.pc \in {"idle", "done"}
    /\ call.calls < MaxTraversalCalls
    /\ call' = FreshAnalysis(call, snippet, file, searchDirectory)
    /\ UNCHANGED <<unreadable, securityLog, guardCall, walkCall, search, trace>>

\* performDeepTraversal called on the analysis of the pass, for another file
\* or depth
PerformDeepTraversal(currentFile, depth) ==
    /\ call.op = "analyzer"
    /\ call.pc = "done"
    /\ call.searchDir # << >>
    /\ call.calls < MaxTraversalCalls
    /\ call' = [call EXCEPT !.pc = "enter", !.calls = @ + 1, !.entered = "direct",
                            !.file = currentFile, !.depth = depth]
    /\ UNCHANGED <<unreadable, securityLog, guardCall, walkCall, search, trace>>

AfterTraversal(a) == IF a.entered = "analyze" THEN "dataSources" ELSE "done"

\* the head of performDeepTraversal
EnterTraversal ==
    /\ call.op = "analyzer"
    /\ call.pc = "enter"
    /\ call' = IF Visits(call.depth, call.visitedFiles, call.file)
               THEN [call EXCEPT
                        !.pc = "variables",
                        !.visitedFiles = @ \cup {call.file},
                        !.traversalPath =
                            Append(@, [file |-> call.file, depth |-> call.depth])]
               ELSE [call EXCEPT !.pc = AfterTraversal(call)]
    /\ UNCHANGED <<unreadable, securityLog, guardCall, walkCall, search, trace>>

References == ExtractReferences(call.snippet)

TraceVariables ==
    /\ call.op = "analyzer"
    /\ call.pc = "variables"
    /\ call' = [call EXCEPT
                  !.pc = "constants",
                  !.dependencies = @ \o Flatten(
                      [i \in 1..Len(References.variables) |->
                          TraceVariableSource(References.variables[i],
                                              call.searchDir[1], unreadable)])]
    /\ UNCHANGED <<unreadable, securityLog, guardCall, walkCall, search, trace>>

TraceConstants ==
    /\ call.op = "analyzer"
    /\ call.pc = "constants"
    /\ call' = [call EXCEPT
                  !.pc = "configurations",
                  !.dependencies = @ \o Flatten(
                      [i \in 1..Len(References.constants) |->
                          TraceConstantDefinition(References.constants[i],
                                                  call.searchDir[1], unreadable)])]
    /\ UNCHANGED <<unreadable, securityLog, guardCall, walkCall, search, trace>>

TraceConfigurations ==
    /\ call.op = "analyzer"
    /\ call.pc = "configurations"
    /\ call' = [call EXCEPT
                  !.pc = "tables",
                  !.dependencies = @ \o Flatten(
                      [i \in 1..Len(References.configurations) |->
                          TraceConfigurationSource(References.configurations[i],
                                                   call.searchDir[1], unreadable)])]
    /\ UNCHANGED <<unreadable, securityLog, guardCall, walkCall, search, trace>>

TraceTables ==
    /\ call.op = "analyzer"
    /\ call.pc = "tables"
    /\ call' = [call EXCEPT
                  !.pc = AfterTraversal(call),
                  !.dependencies = @ \o Flatten(
                      [i \in 1..Len(References.tables) |->
                          TraceDatabaseSchema(References.tables[i],
                                              call.searchDir[1], unreadable)])]
    /\ UNCHANGED <<unreadable, securityLog, guardCall, walkCall, search, trace>>

\* steps 4 and 5 of analyzeWithTraversal and its return
FinishAnalysis ==
    /\ call.op = "analyzer"
    /\ call.pc = "dataSources"
    /\ call' = [call EXCEPT
                  !.pc = "done",
                  !.configurations =
                      IF call.searchDir = << >> THEN << >>
                      ELSE AnalyzeDataSources(call.snippet, call.searchDir[1],
                                              unreadable)]
    /\ UNCHANGED <<unreadable, securityLog, guardCall, walkCall, search, trace>>

StartAnalysis ==
    \E snippet \in Snippets, file \in SnippetFiles, dir \in SearchDirectories :
        AnalyzeWithTraversal(snippet, file, dir)

StartDeepTraversal ==
    \E file \in SnippetFiles, depth \in TraversalDepths :
        PerformDeepTraversal(file, depth)

StepResolve ==
    \/ EnterTraversal
    \/ TraceVariables
    \/ TraceConstants
    \/ TraceConfigurations
    \/ TraceTables
    \/ FinishAnalysis

NextResolve == StartAnalysis \/ StartDeepTraversal \/ StepResolve

SpecResolve == InitResolve /\ [][NextResolve]_vars

\* ---------------------------------------------------------------------------
\* EnhancedIssueFinder.traceConfigurationReference (enhancedIssueFinder.js):
\* the record it builds for a configuration reference from the contents of
\* the source files, without any search
\* ---------------------------------------------------------------------------

\* parts[parts.length - 1] of configRef.split('.')
PropertyName(configRef) ==
    IF configRef = "ConfigStore.colPlanList" THEN "colPlanList" ELSE configRef

\* the first line of the content on which one of populatePatterns matches, in
\* the order of the patterns; 0 when none matches
PopulationLine(propertyName, lines) ==
    IF propertyName # "colPlanList" THEN 0
    ELSE IF \E k \in 1..Len(lines) : lines[k] = "popdecl"
         THEN CHOOSE k \in 1..Len(lines) :
                  /\ lines[k] = "popdecl"
                  /\ \A j \in 1..(k - 1) : lines[j] # "popdecl"
    ELSE IF \E k \in 1..Len(lines) : lines[k] = "popquery"
         THEN CHOOSE k \in 1..Len(lines) :
                  /\ lines[k] = "popquery"
                  /\ \A j \in 1..(k - 1) : lines[j] # "popquery"
    ELSE 0

\* extractMethodBody(content, methodStart): from the first opening brace at or
\* after the match to the brace that closes it
ExtractMethodBody(lines, start) ==
    IF \E k \in start..Len(lines) : lines[k] = "popdecl"
    THEN LET open  == CHOOSE k \in start..Len(lines) :
                          /\ lines[k] = "popdecl"
                          /\ \A j \in start..(k - 1) : lines[j] # "popdecl"
             close == IF \E k \in open..Len(lines) : lines[k] = "close"
                      THEN CHOOSE k \in open..Len(lines) :
                               /\ lines[k] = "close"
                               /\ \A j \in open..(k - 1) : lines[j] # "close"
                      ELSE Len(lines)
         IN  SubSeq(lines, open, close)
    ELSE << >>

\* extractSqlQuery(methodBody), << >> for null
ExtractSqlQuery(methodBody) ==
    IF "popquery" \in Range(methodBody) THEN <<"SELECT * FROM PLAN_TABLE">> ELSE << >>

\* sqlQuery.match(/FROM\s+(\w+)/i)[1]
FromTable(sqlQuery) ==
    IF sqlQuery = "SELECT * FROM PLAN_TABLE" THEN <<"PLAN_TABLE">> ELSE << >>

\* buildConfigurationTraceSteps(configRef, analysis)
BuildConfigurationTraceSteps(configRef, sqlQuery) ==
    <<[step |-> 1, location |-> "Code usage point"],
      [step |-> 2, location |-> "Population method"]>>
    \o (IF sqlQuery = << >> THEN << >>
        ELSE <<[step |-> 3, location |-> "Database"],
               [step |-> 4, location |-> "Database query"]>>)

ConfigurationAnalysis(configRef, sqlQuery) ==
    [found      |-> TRUE,
     reference  |-> configRef,
     dataSource |-> IF sqlQuery = << >> THEN "null" ELSE "database",
     sqlQuery   |-> sqlQuery,
     tableName  |-> IF sqlQuery = << >> THEN << >> ELSE FromTable(sqlQuery[1]),
     steps      |-> BuildConfigurationTraceSteps(configRef, sqlQuery)]

\* traceConfigurationReference(configRef, sourceFiles): the analysis of the
\* first file in which a population pattern matches, [found |-> FALSE] for null
RECURSIVE TraceConfigurationReference(_, _)
TraceConfigurationReference(configRef, sourceFiles) ==
    IF sourceFiles = << >> THEN [found |-> FALSE]
    ELSE IF PopulationLine(PropertyName(configRef), Content(Head(sourceFiles))) = 0
         THEN TraceConfigurationReference(configRef, Tail(sourceFiles))
         ELSE ConfigurationAnalysis(configRef,
                  ExtractSqlQuery(ExtractMethodBody(Content(Head(sourceFiles)),
                      PopulationLine(PropertyName(configRef),
                                     Content(Head(sourceFiles))))))

\* C12: resolving the snippet `if (!ConfigStore.colPlanList.contains(x))`
\* against a tree whose method populateColPlanList() runs
\* jdbcTemplate.query("SELECT * FROM PLAN_TABLE") yields a dependency of type
\* configuration_source whose resolved table name is PLAN_TABLE and whose
\* chain of trace steps has at least 3 steps.
C12_ConfigurationSourceResolved ==
    ( /\ call.op = "analyzer"
      /\ call.pc = "done"
      /\ call.entered = "analyze"
      /\ call.snippet = ConfigSnippet
      /\ call.searchDir = <<Cfg>>
      /\ unreadable = {} )
    => \E i \in 1..Len(call.dependencies) :
          /\ call.dependencies[i].type = "configuration_source"
          /\ "tableName" \in DOMAIN call.dependencies[i]
          /\ call.dependencies[i].tableName = "PLAN_TABLE"
          /\ "steps" \in DOMAIN call.dependencies[i]
          /\ Len(call.dependencies[i].steps) >= 3

\* the position of a pass in the body of analyzeWithTraversal
PassRank(pc) ==
    CASE pc = "enter"          -> 1
      [] pc = "variables"      -> 2
      [] pc = "constants"      -> 3
      [] pc = "configurations" -> 4
      [] pc = "tables"         -> 5
      [] pc = "dataSources"    -> 6
      [] pc = "done"           -> 7
      [] OTHER                 -> 0

\* C13: in one pass no file is on traversalPath twice and no file is visited
\* at depth maxTraversalDepth or deeper; the pass terminates: each of its
\* steps takes it strictly forward, none takes it back to a file or a loop
\* it has left.
C13_VisitedOnceAndTerminates ==
    /\ [](call.op = "analyzer" =>
            /\ \A i, j \in 1..Len(call.traversalPath) :
                  call.traversalPath[i].file = call.traversalPath[j].file => i = j
            /\ \A i \in 1..Len(call.traversalPath) :
                  call.traversalPath[i].depth < MaxTraversalDepth)
    /\ [][(call.op = "analyzer" /\ call.pc \notin {"idle", "done"})
              => PassRank(call'.pc) > PassRank(call.pc)]_vars

\* a second traversal of a visited file and a traversal at the depth limit
\* were both asked for and refused
C13_Witness ==
    /\ call.op = "analyzer"
    /\ call.pc = "done"
    /\ call.entered = "direct"
    /\ call.calls = 3
    /\ call.depth = MaxTraversalDepth
    /\ Len(call.traversalPath) = 1
    /\ call.file \notin call.visitedFiles

\* ---------------------------------------------------------------------------
\* The report of trace
\* ---------------------------------------------------------------------------

\* the (file, line) pairs of the results trace accumulated
TracePairs == {<<trace.results[i].file, trace.results[i].line>> :
                  i \in 1..Len(trace.results)}

\* the highest score among the accumulated results of one pair
BestScore(pair) ==
    LET scores == {trace.results[i].relevanceScore :
                      i \in {j \in 1..Len(trace.results) :
                                <<trace.results[j].file, trace.results[j].line>> = pair}}
    IN  CHOOSE s \in scores : \A t \in scores : t <= s

TraceReported == trace.pc = "done" /\ trace.returned # NoMatchSentinel

ReportPairs ==
    {<<trace.returned.entries[i].file, trace.returned.entries[i].line>> :
        i \in 1..Len(trace.returned.entries)}

\* C21: the report of trace lists at most 3 entries, on distinct (file, line)
\* pairs, each with the higher score of its duplicates, in non-increasing order
\* of score, and no deduplicated result left out scores higher than a listed one.
C21_ReportTopThree ==
    TraceReported =>
        LET e == trace.returned.entries IN
        /\ Len(e) <= TraceTop
        /\ Len(e) = IF Cardinality(TracePairs) < TraceTop
                    THEN Cardinality(TracePairs) ELSE TraceTop
        /\ \A i, j \in 1..Len(e) :
              i # j => <<e[i].file, e[i].line>> # <<e[j].file, e[j].line>>
        /\ \A i \in 1..Len(e) :
              /\ <<e[i].file, e[i].line>> \in TracePairs
              /\ e[i].relevanceScore = BestScore(<<e[i].file, e[i].line>>)
        /\ \A i \in 1..(Len(e) - 1) : e[i].relevanceScore >= e[i + 1].relevanceScore
        /\ \A p \in TracePairs \ ReportPairs :
              \A i \in 1..Len(e) : BestScore(p) <= e[i].relevanceScore

\* a report with an entry whose pair was found twice, the second time with a
\* higher score (by the error-type strategy), and which lists the higher score
C21_Witness ==
    /\ TraceReported
    /\ \E i, j \in 1..Len(trace.results) :
          /\ i < j
          /\ trace.results[i].file = trace.results[j].file
          /\ trace.results[i].line = trace.results[j].line
          /\ trace.results[j].relevanceScore > trace.results[i].relevanceScore
          /\ \E k \in 1..Len(trace.returned.entries) :
                /\ trace.returned.entries[k].file = trace.results[j].file
                /\ trace.returned.entries[k].line = trace.results[j].line
                /\ trace.returned.entries[k].relevanceScore
                      = trace.results[j].relevanceScore

\* C22: before trace searches an error-type token it has issued a search with
\* the heavy-normalized form of the log (under whatever strategy name), when
\* that form is long enough to be searched.
C22_HeavyFormSearched ==
    Tracing =>
        \A i \in 1..Len(trace.issued) :
            (/\ trace.issued[i].context = "error_type"
             /\ Len(NormalizeLogText(trace.log, "heavy")) >= MinQueryLength)
            => \E j \in 1..(i - 1) :
                  trace.issued[j].query = NormalizeLogText(trace.log, "heavy")

\* ---------------------------------------------------------------------------
\* EnhancedTraversalAnalyzer.generateRecommendations
\* ---------------------------------------------------------------------------

\* the length a traversal path must exceed before it is looked at
CircularCheckLength == 5

Recommendation(type, name) == [type |-> type, name |-> name]

\* generateRecommendations(analysis): one recommendation per collection
\* without initialization, per configuration without population logic, per
\* query without text or tables, one for external sources, one for a long
\* traversal path with a repeated file
GenerateRecommendations(analysis) ==
    LET d == analysis.dataSourceAnalysis
        files == [i \in 1..Len(analysis.traversalPath) |-> analysis.traversalPath[i].file]
    IN  [i \in 1..Len(SelectSeq(d.arrays, LAMBDA a : a.initialization = << >>)) |->
            Recommendation("uninitialized_collection",
                SelectSeq(d.arrays, LAMBDA a : a.initialization = << >>)[i].name)]
     \o [i \in 1..Len(SelectSeq(d.configurations, LAMBDA c : c.populationLogic = << >>)) |->
            Recommendation("missing_configuration",
                SelectSeq(d.configurations, LAMBDA c : c.populationLogic = << >>)[i].name)]
     \o [i \in 1..Len(SelectSeq(d.queries, LAMBDA q : q.query = "" \/ q.tables = << >>)) |->
            Recommendation("incomplete_query", "")]
     \o (IF Len(d.externalSources) > 0
         THEN <<Recommendation("external_dependencies", "")>> ELSE << >>)
     \o (IF Len(analysis.traversalPath) > CircularCheckLength
            /\ Cardinality(Range(files)) < Len(files)
         THEN <<Recommendation("potential_circular_dependency", "")>> ELSE << >>)

\* the longest traversal path handed to generateRecommendations
MaxPathEntries == 6

RECURSIVE PathsOfLength(_)
PathsOfLength(n) ==
    IF n = 0 THEN {<< >>}
    ELSE {Append(p, [file |-> f, depth |-> 0]) : p \in PathsOfLength(n - 1),
                                                 f \in SnippetFiles}

TraversalPaths == UNION {PathsOfLength(n) : n \in 0..MaxPathEntries}

ConfigurationLists ==
    { << >>,
      <<[name |-> "ConfigStore.colPlanList", populationLogic |-> << >>]>>,
      <<[name |-> "ConfigStore.colPlanList",
         populationLogic |-> <<[file |-> <<"Loader.java">>, line |-> 1]>>]>> }

AnalysisOf(path, configurations) ==
    [traversalPath |-> path,
     dataSourceAnalysis |-> [arrays |-> << >>, constants |-> << >>, queries |-> << >>,
                             configurations |-> configurations,
                             externalSources |-> << >>]]

InitRecommend ==
    /\ unreadable = {}
    /\ securityLog = << >>
    /\ guardCall = IdleGuard
    /\ walkCall = IdleWalk
    /\ search = IdleSearch
    /\ trace = IdleTrace
    /\ \E path \in TraversalPaths, configurations \in ConfigurationLists :
          call = [op |-> "recommend", pc |-> "start",
                  analysis |-> AnalysisOf(path, configurations),
                  recommendations |-> << >>]

GenerateRecommendationsCall ==
    /\ call.op = "recommend"
    /\ call.pc = "start"
    /\ call' = [call EXCEPT !.pc = "done",
                            !.recommendations = GenerateRecommendations(call.analysis)]
    /\ UNCHANGED <<unreadable, securityLog, guardCall, walkCall, search, trace>>

SpecRecommend == InitRecommend /\ [][GenerateRecommendationsCall]_vars

\* some file occurs more than once in the traversal path
Revisits(path) == Cardinality({path[i].file : i \in 1..Len(path)}) < Len(path)

DependencyNames == {call.dependencies[i].name : i \in 1..Len(call.dependencies)}

\* C24: when the analysis of a snippet is done and a variable of the snippet
\* was traced in a search directory that holds no match for it, the
\* dependencies of the result hold an entry for that variable (with no
\* sources)
C24_EmptyDependencyRecorded ==
    ( /\ call.op = "analyzer"
      /\ call.pc = "done"
      /\ call.entered = "analyze"
      /\ call.snippet = PlainSnippet
      /\ call.searchDir # << >> )
    => PlainSnippet \in DependencyNames


\* ---------------------------------------------------------------------------
\* The types of the dependencies
\* ---------------------------------------------------------------------------

DependencyTypes ==
    {"variable_source", "constant_definition", "configuration_source",
     "database_schema", "database_query"}

\* C25: every dependency of an analysis has one of the types variable_source,
\* constant_definition, configuration_source, database_schema, database_query
C25_DependencyTypesListed ==
    call.op = "analyzer"
    => \A i \in 1..Len(call.dependencies) :
          call.dependencies[i].type \in DependencyTypes


\* ---------------------------------------------------------------------------
\* The result cache
\* TraversalCache (src/utils/cache.js) over a NodeCache store
\* ---------------------------------------------------------------------------

\* this.maxSize, 1000 in the program
MaxSize == 3

\* the operations of one behaviour
MaxCacheOps == 5

CacheKeys   == {"trace:a", "trace:b", "trace:c", "trace:d"}
CacheValues == {"v1", "v2"}

NoKey == "none"

\* the keys of the store in the order of Object.keys: a key is listed at the
\* place of its first assignment, an assignment to a listed key keeps the place
StoreKeys(c) == c.keys

Present(c) == {c.keys[i] : i \in 1..Len(c.keys)}

\* NodeCache.del(key)
StoreDel(c, key) ==
    [c EXCEPT !.keys = SelectSeq(c.keys, LAMBDA k : k # key),
              !.vals = [k \in Present(c) \ {key} |-> c.vals[k]],
              !.born = [k \in Present(c) \ {key} |-> c.born[k]]]

\* NodeCache.set(key, value, ttl); born is the time at which the key entered
\* the store
StoreSet(c, key, value) ==
    [c EXCEPT !.keys = IF key \in Present(c) THEN c.keys ELSE Append(c.keys, key),
              !.vals = [k \in Present(c) \cup {key} |->
                            IF k = key THEN value ELSE c.vals[k]],
              !.born = [k \in Present(c) \cup {key} |->
                            IF k \in Present(c) THEN c.born[k] ELSE c.clock]]

\* a read moved the key to the end of the store
KeysAfterGetRecent(keys, key) ==
    IF \E i \in 1..Len(keys) : keys[i] = key
    THEN Append(SelectSeq(keys, LAMBDA k : k # key), key)
    ELSE keys

\* NodeCache.get(key) reads this.data[key]: the order of the keys is as before
KeysAfterGet(keys, key) == keys

EmptyStats == [hits |-> 0, misses |-> 0, sets |-> 0, deletes |-> 0]

\* new TraversalCache()
NewCache(enabled) ==
    [op |-> "cache", enabled |-> enabled, keys |-> << >>,
     vals |-> [k \in {} |-> "v1"], born |-> [k \in {} |-> 0],
     stats |-> EmptyStats, clock |-> 0,
     last |-> [op |-> "new", key |-> NoKey, evicted |-> NoKey, returned |-> NoKey]]

Done(c, op, key, evicted, returned) ==
    [c EXCEPT !.clock = c.clock + 1,
              !.last = [op |-> op, key |-> key, evicted |-> evicted,
                        returned |-> returned]]

\* get(key)
CacheGetResult(c, key) ==
    IF ~c.enabled THEN Done(c, "get", key, NoKey, "null")
    ELSE IF key \in Present(c)
    THEN Done([c EXCEPT !.stats.hits = c.stats.hits + 1,
                        !.keys = KeysAfterGet(c.keys, key)],
              "get", key, NoKey, c.vals[key])
    ELSE Done([c EXCEPT !.stats.misses = c.stats.misses + 1],
              "get", key, NoKey, "null")

\* the first lines of set: at maxSize the first key of the store is deleted
Evicted(c) ==
    IF Len(StoreKeys(c)) >= MaxSize THEN StoreKeys(c)[1] ELSE NoKey

AfterEviction(c) ==
    IF Evicted(c) = NoKey THEN c
    ELSE [StoreDel(c, Evicted(c)) EXCEPT !.stats.deletes = c.stats.deletes + 1]

\* set(key, value, ttl)
CacheSetResult(c, key, value) ==
    IF ~c.enabled THEN Done(c, "set", key, NoKey, NoKey)
    ELSE Done([StoreSet(AfterEviction(c), key, value)
                  EXCEPT !.stats.sets = AfterEviction(c).stats.sets + 1],
              "set", key, Evicted(c), NoKey)

\* del(key)
CacheDelResult(c, key) ==
    IF ~c.enabled THEN Done(c, "del", key, NoKey, NoKey)
    ELSE Done([StoreDel(c, key) EXCEPT !.stats.deletes = c.stats.deletes + 1],
              "del", key, NoKey, NoKey)

\* clear(): flushAll and new counters
CacheClearResult(c) ==
    Done([c EXCEPT !.keys = << >>, !.vals = [k \in {} |-> "v1"],
                   !.born = [k \in {} |-> 0], !.stats = EmptyStats],
         "clear", NoKey, NoKey, NoKey)

CacheIdle == UNCHANGED <<unreadable, securityLog, guardCall, walkCall, search, trace>>

InitCache ==
    /\ unreadable = {}
    /\ securityLog = << >>
    /\ guardCall = IdleGuard
    /\ walkCall = IdleWalk
    /\ search = IdleSearch
    /\ trace = IdleTrace
    /\ call \in {NewCache(e) : e \in BOOLEAN}

CacheGet ==
    /\ call.op = "cache"
    /\ call.clock < MaxCacheOps
    /\ \E key \in CacheKeys : call' = CacheGetResult(call, key)
    /\ CacheIdle

CacheSet ==
    /\ call.op = "cache"
    /\ call.clock < MaxCacheOps
    /\ \E key \in CacheKeys, value \in CacheValues :
          call' = CacheSetResult(call, key, value)
    /\ CacheIdle

CacheDel ==
    /\ call.op = "cache"
    /\ call.clock < MaxCacheOps
    /\ \E key \in CacheKeys : call' = CacheDelResult(call, key)
    /\ CacheIdle

CacheClear ==
    /\ call.op = "cache"
    /\ call.clock < MaxCacheOps
    /\ call' = CacheClearResult(call)
    /\ CacheIdle

\* the period check of the store deletes a key whose time to live is over
CacheExpire ==
    /\ call.op = "cache"
    /\ call.clock < MaxCacheOps
    /\ \E key \in Present(call) :
          call' = Done(StoreDel(call, key), "expire", key, NoKey, NoKey)
    /\ CacheIdle

NextCache == CacheGet \/ CacheSet \/ CacheDel \/ CacheClear \/ CacheExpire

SpecCache == InitCache /\ [][NextCache]_vars

\* C26: the cache never holds more than maxSize entries, and the entry a set
\* evicts entered the cache before every other entry present, whatever was
\* read with get before
C26_InsertionOrderEviction ==
    /\ [](call.op = "cache" => Len(call.keys) <= MaxSize)
    /\ [][(call'.op = "cache" /\ call'.last.op = "set" /\ call'.last.evicted # NoKey)
            => /\ call'.last.evicted \in Present(call)
               /\ \A k \in Present(call) : call.born[call'.last.evicted] <= call.born[k]]_vars

\* a set at capacity evicted the first entry after a later entry was read and
\* an earlier one was written again
C26_Witness ==
    /\ call.op = "cache"
    /\ call.last.op = "set"
    /\ call.last.evicted = "trace:a"
    /\ call.last.key = "trace:d"
    /\ call.stats.hits >= 1
    /\ Len(call.keys) = MaxSize
    /\ call.keys[1] = "trace:b"

\* C29: a set with a key that is present removes no other key
C29_SetOfPresentKeyKeepsOthers ==
    [][(call.op = "cache" /\ call'.op = "cache" /\ call'.last.op = "set"
          /\ call'.last.key \in Present(call))
        => Present(call) \subseteq Present(call')]_vars


\* ---------------------------------------------------------------------------
\* The allowed paths of the REST walker
\* ---------------------------------------------------------------------------

\* directory d is the allowed path a or lies below it
WithinAllowed(d, a) == Len(a) <= Len(d) /\ SubSeq(d, 1, Len(a)) = a

\* C30: a walk of getAllFilesSync over a directory that is neither an allowed
\* path nor below one returns no files and records an error
C30_OutsideAllowedNotEnumerated ==
    ( /\ walkCall.engine = "rest"
      /\ \A a \in AllowedPaths : ~WithinAllowed(Resolve(walkCall.root), a) )
    => /\ walkCall.files = << >>
       /\ walkCall.errors # << >>


\* ---------------------------------------------------------------------------
\* Two smartSearch calls that overlap on one engine
\* this.processedFiles, this.skippedFiles and this.errors are fields of the
\* engine (src/index.js, constructor); smartSearch resets them and reads them
\* ---------------------------------------------------------------------------

Requests == {1, 2}

OverlapPathLists == {<<Proj>>, <<Other>>}

\* the fields of the engine that smartSearch resets
FreshStats == [processedFiles |-> 0, skippedFiles |-> 0, errors |-> << >>]

NoSummary == [returned |-> FALSE, processedFiles |-> 0, errors |-> << >>]

Summary(processedFiles, errors) ==
    [returned |-> TRUE, processedFiles |-> processedFiles, errors |-> errors]

\* req[i] holds the locals of call i; its processedFiles and errors count what
\* call i itself processed and met
InitOverlap ==
    /\ unreadable \in SUBSET UnreadableCandidates
    /\ securityLog = << >>
    /\ guardCall = IdleGuard
    /\ walkCall = IdleWalk
    /\ search = IdleSearch
    /\ trace = IdleTrace
    /\ call = [op |-> "overlap", stats |-> FreshStats,
               req |-> [i \in Requests |-> IdleSearch],
               summary |-> [i \in Requests |-> NoSummary]]

OverlapIdle == UNCHANGED <<unreadable, guardCall, walkCall, search, trace>>

\* smartSearch up to its first await: the reset of the engine's fields
OverlapStart(i) ==
    /\ call.op = "overlap"
    /\ call.req[i].pc = "idle"
    /\ \E paths \in OverlapPathLists :
          call' = [call EXCEPT
                     !.stats = FreshStats,
                     !.req[i] = [IdleSearch EXCEPT
                                    !.pc = "gather", !.engine = "smart", !.query = "Foo",
                                    !.searchPaths = paths, !.fileTypes = <<"all">>,
                                    !.maxResults = EngineMaxResults,
                                    !.maxFiles = MaxFilesToProcess, !.rootIdx = 1]]
    /\ securityLog' = securityLog
    /\ OverlapIdle

StatsAfterGather(stats, g) ==
    [stats EXCEPT !.skippedFiles = @ + g.skipped, !.errors = @ \o g.errors]

\* one search path of call i
OverlapGather(i) ==
    /\ call.op = "overlap"
    /\ call.req[i].pc = "gather"
    /\ call.req[i].rootIdx <= Len(call.req[i].searchPaths)
    /\ LET g == GatherRoot(call.req[i].searchPaths[call.req[i].rootIdx],
                           call.req[i].fileTypes, unreadable)
       IN  /\ call' = [call EXCEPT !.req[i] = AfterGather(call.req[i], g),
                                   !.stats = StatsAfterGather(call.stats, g)]
           /\ securityLog' = LogAll(securityLog, g.viols)
    /\ OverlapIdle

\* after the last search path of call i: the early return reads this.errors
OverlapPrepare(i) ==
    /\ call.op = "overlap"
    /\ call.req[i].pc = "gather"
    /\ call.req[i].rootIdx > Len(call.req[i].searchPaths)
    /\ IF FilterFilesByType(call.req[i].allFiles, call.req[i].fileTypes) = << >>
       THEN call' = [call EXCEPT !.req[i].pc = "done",
                                 !.summary[i] = Summary(0, call.stats.errors)]
       ELSE call' = [call EXCEPT
                        !.req[i].pc = "batch", !.req[i].nextBatch = 1,
                        !.req[i].filesToProcess =
                            Take(call.req[i].allFiles, call.req[i].maxFiles)]
    /\ securityLog' = securityLog
    /\ OverlapIdle

StatsAfterBatch(stats, r) ==
    [stats EXCEPT !.processedFiles = @ + r.processed, !.errors = @ \o r.errors]

\* one batch of call i
OverlapBatch(i) ==
    /\ call.op = "overlap"
    /\ call.req[i].pc = "batch"
    /\ call.req[i].nextBatch <= NumBatches(call.req[i].filesToProcess)
    /\ LET batch == BatchOf(call.req[i].filesToProcess, call.req[i].nextBatch)
           r     == ProcessBatch(batch, call.req[i].query, call.req[i].caseSensitive,
                                 unreadable)
       IN  /\ call' = [call EXCEPT !.req[i] = AfterBatch(call.req[i], batch, r),
                                   !.stats = StatsAfterBatch(call.stats, r)]
           /\ securityLog' = LogAll(securityLog, r.viols)
    /\ OverlapIdle

OverlapBatchesDone(i) ==
    /\ call.op = "overlap"
    /\ call.req[i].pc = "batch"
    /\ call.req[i].nextBatch > NumBatches(call.req[i].filesToProcess)
    /\ call' = [call EXCEPT !.req[i].pc = "rank"]
    /\ securityLog' = securityLog
    /\ OverlapIdle

\* the sort, the slice and the summary of call i, read from the engine's fields
OverlapFinish(i) ==
    /\ call.op = "overlap"
    /\ call.req[i].pc = "rank"
    /\ call' = [call EXCEPT
                  !.req[i].pc = "done",
                  !.req[i].returned = RankAndLimit(call.req[i].results,
                                                   call.req[i].maxResults),
                  !.summary[i] = Summary(call.stats.processedFiles, call.stats.errors)]
    /\ securityLog' = securityLog
    /\ OverlapIdle

NextOverlap ==
    \E i \in Requests :
        \/ OverlapStart(i)
        \/ OverlapGather(i)
        \/ OverlapPrepare(i)
        \/ OverlapBatch(i)
        \/ OverlapBatchesDone(i)
        \/ OverlapFinish(i)

SpecOverlap == InitOverlap /\ [][NextOverlap]_vars

\* C27: the summary of each of two overlapping smartSearch calls reports the
\* files that call processed and the errors that call met, and none of the
\* other call's
C27_SummaryOfOwnRequest ==
    call.op = "overlap" =>
        \A i \in Requests :
            call.summary[i].returned
            => /\ call.summary[i].processedFiles = call.req[i].processedFiles
               /\ call.summary[i].errors = call.req[i].errors


\* ---------------------------------------------------------------------------
\* Two analyzeWithTraversal calls that overlap on one analyzer
\* this.visitedFiles is a field of the analyzer (constructor); each call
\* clears it, and performDeepTraversal reads and extends it
\* ---------------------------------------------------------------------------

OverlapSnippets == {ConfigSnippet, PlainSnippet}

\* an[i] holds the analysis object and the position of call i; the visited
\* files are in visitedFiles, which the calls share
InitAnalyses ==
    /\ unreadable = {}
    /\ securityLog = << >>
    /\ guardCall = IdleGuard
    /\ walkCall = IdleWalk
    /\ search = IdleSearch
    /\ trace = IdleTrace
    /\ call = [op |-> "analyses", visitedFiles |-> {},
               an |-> [i \in Requests |-> IdleAnalyzer]]

AnalysesIdle == UNCHANGED <<unreadable, securityLog, guardCall, walkCall, search, trace>>

\* analyzeWithTraversal up to await this.analyzeSnippet(...)
AnalysisStart(i) ==
    /\ call.op = "analyses"
    /\ call.an[i].pc = "idle"
    /\ \E snippet \in OverlapSnippets, file \in SnippetFiles :
          call' = [call EXCEPT
                     !.visitedFiles = {},
                     !.an[i] = FreshAnalysis(call.an[i], snippet, file, <<Cfg>>)]
    /\ AnalysesIdle

\* the head of performDeepTraversal of call i, up to its first await
AnalysisEnter(i) ==
    /\ call.op = "analyses"
    /\ call.an[i].pc = "enter"
    /\ call' = IF Visits(call.an[i].depth, call.visitedFiles, call.an[i].file)
               THEN [call EXCEPT
                        !.visitedFiles = @ \cup {call.an[i].file},
                        !.an[i].pc = "variables",
                        !.an[i].traversalPath =
                            Append(@, [file |-> call.an[i].file,
                                       depth |-> call.an[i].depth])]
               ELSE [call EXCEPT !.an[i].pc = AfterTraversal(call.an[i])]
    /\ AnalysesIdle

\* what one pass of performDeepTraversal pushes for analysis a
PassDependencies(a, pass) ==
    LET refs == ExtractReferences(a.snippet)
    IN  CASE pass = "variables" ->
                Flatten([k \in 1..Len(refs.variables) |->
                    TraceVariableSource(refs.variables[k], a.searchDir[1], unreadable)])
          [] pass = "constants" ->
                Flatten([k \in 1..Len(refs.constants) |->
                    TraceConstantDefinition(refs.constants[k], a.searchDir[1], unreadable)])
          [] pass = "configurations" ->
                Flatten([k \in 1..Len(refs.configurations) |->
                    TraceConfigurationSource(refs.configurations[k], a.searchDir[1],
                                             unreadable)])
          [] OTHER ->
                Flatten([k \in 1..Len(refs.tables) |->
                    TraceDatabaseSchema(refs.tables[k], a.searchDir[1], unreadable)])

PassAfter(a) ==
    CASE a.pc = "variables"      -> "constants"
      [] a.pc = "constants"      -> "configurations"
      [] a.pc = "configurations" -> "tables"
      [] OTHER                   -> AfterTraversal(a)

\* one of the four loops of performDeepTraversal of call i
AnalysisPass(i) ==
    /\ call.op = "analyses"
    /\ call.an[i].pc \in {"variables", "constants", "configurations", "tables"}
    /\ call' = [call EXCEPT
                  !.an[i].pc = PassAfter(call.an[i]),
                  !.an[i].dependencies = @ \o PassDependencies(call.an[i], call.an[i].pc)]
    /\ AnalysesIdle

\* steps 4 and 5 of call i and its return
AnalysisFinish(i) ==
    /\ call.op = "analyses"
    /\ call.an[i].pc = "dataSources"
    /\ call' = [call EXCEPT
                  !.an[i].pc = "done",
                  !.an[i].configurations =
                      AnalyzeDataSources(call.an[i].snippet, call.an[i].searchDir[1],
                                         unreadable)]
    /\ AnalysesIdle

NextAnalyses ==
    \E i \in Requests :
        \/ AnalysisStart(i)
        \/ AnalysisEnter(i)
        \/ AnalysisPass(i)
        \/ AnalysisFinish(i)

SpecAnalyses == InitAnalyses /\ [][NextAnalyses]_vars

\* C28: each of two overlapping analyzeWithTraversal calls performs its own
\* traversal: when a call is done, its traversalPath holds its primary file
\* and its dependencies are those its references yield
C28_EachCallTraverses ==
    call.op = "analyses" =>
        \A i \in Requests :
            call.an[i].pc = "done"
            => /\ \E k \in 1..Len(call.an[i].traversalPath) :
                     call.an[i].traversalPath[k].file = call.an[i].file
               /\ call.an[i].dependencies =
                     PassDependencies(call.an[i], "variables")
                        \o PassDependencies(call.an[i], "constants")
                        \o PassDependencies(call.an[i], "configurations")
                        \o PassDependencies(call.an[i], "tables")

===========================================================================
